---- MODULE Spec2Model ----
(***************************************************************************)
(* Model of the user repository service (services/repository/mongodb)     *)
(* and of the MongoDB collection it talks to.                              *)
(*                                                                         *)
(* A string is a sequence of one-character strings.  An ObjectID is the    *)
(* natural number its 12 bytes spell in big-endian order.  The collection  *)
(* is a function from the ObjectIDs of the stored documents to their       *)
(* email.  The Search handler is modelled step by step (one action per     *)
(* blocking store call); the single-document handlers are one action each. *)
(***************************************************************************)
EXTENDS Integers, Sequences, FiniteSets, TLC

VARIABLES
    users,        \* the collection: ObjectID -> email of the stored document
    nextID,       \* the ObjectID the driver generates for the next InsertOne
    pc,           \* position of the call in flight
    op,           \* name of the handler in flight
    request,      \* the request of the call in flight
    filter,       \* Search: the local variable filter (bson.M)
    findOptions,  \* Search: the options handed to collection.Find
    cursor,       \* Search: documents the mongo cursor has still to deliver
    response,     \* Search: the local variable response
    result,       \* what the handler returned: (response, err)
    calls,        \* number of store operations issued by the call in flight
    fault,        \* the failure the store or the context injected, if any
    ctx,          \* the context of the call in flight: live or cancelled
    written,      \* history: ObjectID -> email the callers were last told is stored
    rpc,          \* the call in flight through endpoint, business service and encoder
    observed,     \* history: an earlier successful Search, as its caller saw it
    paging,       \* history: the pages a caller got so far when paging forward
    between,      \* history: the writes of other clients that took effect between
                  \* the count and the fetch of the Search in flight
    transport,    \* the gRPC transport: the position of Start, the package-level
                  \* Live and Ready, and whether Stop has returned
    searches      \* the Search calls that run concurrently: the position, request
                  \* and result of each call, and the local variables of each

\* the state of the repository service and its store
repositoryVars == <<users, nextID, pc, op, request, filter, findOptions, cursor,
                    response, result, calls, fault, ctx, written>>

\* what callers keep of earlier calls
historyVars == <<observed, paging>>

\* the state outside the repository service and its store
serviceVars == <<rpc, historyVars, between, transport, searches>>

\* the state outside the endpoint, business service and encoder
notRpcVars == <<repositoryVars, historyVars, between, transport, searches>>

\* the state outside the gRPC transport
notTransportVars == <<repositoryVars, rpc, historyVars, between, searches>>

\* the state outside the Search calls that run concurrently
notSearchesVars == <<repositoryVars, rpc, historyVars, between, transport>>

vars == <<users, nextID, pc, op, request, filter, findOptions, cursor,
          response, result, calls, fault, ctx, written, rpc, observed, paging, between,
          transport, searches>>

----------------------------------------------------------------------------
(* Bounds of the model *)

\* the first ObjectID the driver generates
MinID == 9

\* number of ObjectIDs the driver hands out
MaxUsers == 3
\* largest value of Pagination.First and Pagination.Last
MaxLimit == 1
\* largest length of SearchRequest.UserIDs
MaxFilter == 2
\* largest length of SearchRequest.SortingOptions
MaxSortKeys == 2
\* largest page size of a caller that pages forward
MaxPage == 2
\* number of Search calls that run concurrently
MaxCalls == 2

----------------------------------------------------------------------------
(* primitive.ObjectID and its hex encoding *)

\* an ObjectID is 12 bytes, written as 24 hex digits
ObjectIDHexLen == 24

\* the all-zero ObjectID, returned next to a decoding error
NilObjectID == 0

LowerHexChars == <<"0", "1", "2", "3", "4", "5", "6", "7",
                   "8", "9", "a", "b", "c", "d", "e", "f">>

UpperHexChars == <<"0", "1", "2", "3", "4", "5", "6", "7",
                   "8", "9", "A", "B", "C", "D", "E", "F">>

\* the value of each hex digit, of either case
HexCharValue ==
    [c \in {LowerHexChars[i] : i \in 1..16} \cup {UpperHexChars[i] : i \in 1..16} |->
        (CHOOSE i \in 1..16 : LowerHexChars[i] = c \/ UpperHexChars[i] = c) - 1]

IsHexChar(c) == c \in DOMAIN HexCharValue

RECURSIVE EncodeHex(_, _, _)
\* the last k hex digits of n, most significant first, in the alphabet chars
EncodeHex(n, k, chars) ==
    IF k = 0 THEN <<>>
    ELSE Append(EncodeHex(n \div 16, k - 1, chars), chars[(n % 16) + 1])

\* ObjectID.Hex(): 24 lower-case hex digits
Hex(id) == EncodeHex(id, ObjectIDHexLen, LowerHexChars)

RECURSIVE DecodeHex(_, _)
\* the number spelled by the first n hex digits of s
DecodeHex(s, n) ==
    IF n = 0 THEN 0
    ELSE DecodeHex(s, n - 1) * 16 + HexCharValue[s[n]]

\* primitive.ObjectIDFromHex: 24 hex digits of either case, else an error
\* and the nil ObjectID
ObjectIDFromHex(s) ==
    IF Len(s) = ObjectIDHexLen /\ \A i \in 1..Len(s) : IsHexChar(s[i])
    THEN [id |-> DecodeHex(s, Len(s)), err |-> FALSE]
    ELSE [id |-> NilObjectID, err |-> TRUE]

----------------------------------------------------------------------------
(* Inputs *)

\* the ObjectIDs the driver generates, in generation order
ObjectIDs == MinID .. (MinID + MaxUsers - 1)

\* a 24-digit string in upper case: decodes, but is not what Hex() prints
UpperHex(id) == EncodeHex(id, ObjectIDHexLen, UpperHexChars)

\* a string of the wrong length, and one of the right length that is not hex
ShortString == <<"1", "2", "3">>
NonHexString == [i \in 1..ObjectIDHexLen |-> "g"]

\* email addresses a caller passes to CreateUser
Emails == {"a@test.com"}

\* strings a caller passes in UserIDs
FilterStrings == {Hex(MinID), UpperHex(MinID + 1), NonHexString}

\* strings a caller passes as After or Before
CursorStrings == {Hex(MinID), Hex(MinID + MaxUsers - 1), ShortString}

\* an optional field (a pointer): nil is the empty sequence, a pointer to x
\* is the one-element sequence
Nil == <<>>
Some(x) == <<x>>
IsSet(o) == Len(o) > 0
ValueOf(o) == o[1]
Optional(S) == {Nil} \cup {Some(x) : x \in S}

RECURSIVE SeqsUpTo(_, _)
SeqsUpTo(S, n) ==
    IF n = 0 THEN {<<>>}
    ELSE LET shorter == SeqsUpTo(S, n - 1)
         IN  shorter \cup {Append(s, x) : s \in shorter, x \in S}

Limits == 0..MaxLimit

\* requests with empty SortingOptions
SearchRequests ==
    [UserIDs : SeqsUpTo(FilterStrings, MaxFilter),
     Pagination : [After  : Optional(CursorStrings),
                   Before : Optional(CursorStrings),
                   First  : Optional(Limits),
                   Last   : Optional(Limits)],
     SortingOptions : {<<>>}]

\* requests without filter, cursor and sorting options
PlainRequests ==
    [UserIDs : {<<>>},
     Pagination : [After : {Nil}, Before : {Nil}, First : Optional(Limits), Last : {Nil}],
     SortingOptions : {<<>>}]

\* requests with and without a filter, each cursor, each limit and a sorting
\* option
FlagRequests ==
    [UserIDs : {<<>>, <<Hex(MinID + 1)>>},
     Pagination : [After  : Optional({Hex(MinID)}),
                   Before : Optional({Hex(MinID + MaxUsers - 1)}),
                   First  : Optional(Limits),
                   Last   : Optional(Limits)],
     SortingOptions : {<<>>, <<[Name |-> "email", Direction |-> "Descending"]>>}]

\* no caller is paging
NoPaging == [state |-> "none", UserIDs |-> <<>>, First |-> 0, pages |-> <<>>]

\* the filters and page sizes of a caller that pages forward
PagingUserIDs == {<<>>, <<Hex(MinID + 1), Hex(MinID)>>}
PageSizes == 1..MaxPage

RECURSIVE Concat(_)
\* the pages of a caller one after the other
Concat(pages) ==
    IF pages = <<>> THEN <<>> ELSE Head(pages) \o Concat(Tail(pages))

\* the request for the next page: After is the Cursor of the last entry of
\* the previous page, and absent in the first request
NextPageRequest(p) ==
    LET got == Concat(p.pages)
    IN  [UserIDs |-> p.UserIDs,
         Pagination |-> [After  |-> IF got = <<>> THEN Nil ELSE Some(got[Len(got)]),
                         Before |-> Nil,
                         First  |-> Some(p.First),
                         Last   |-> Nil],
         SortingOptions |-> <<>>]

\* the requests of callers that page forward
PagingRequests ==
    [UserIDs : PagingUserIDs,
     Pagination : [After  : Optional({Hex(id) : id \in ObjectIDs}),
                   Before : {Nil},
                   First  : {Some(n) : n \in PageSizes},
                   Last   : {Nil}],
     SortingOptions : {<<>>}]

\* email addresses in the order MongoDB compares strings
EmailOrder == <<"a@test.com", "b@test.com">>

\* email addresses a caller passes to CreateUser when the order matters
SortEmails == {EmailOrder[i] : i \in 1..Len(EmailOrder)}

\* the fields a caller sorts on, and the two directions
SortNames == {"email", "_id"}
SortDirections == {"Ascending", "Descending"}

\* sequences of at most n sorting options on pairwise different fields
SortingOptionSeqs(n) ==
    {o \in SeqsUpTo([Name : SortNames, Direction : SortDirections], n) :
        \A i \in 1..Len(o) : \A j \in 1..Len(o) : i # j => o[i].Name # o[j].Name}

\* requests with SortingOptions, for every stored user, with or without a limit
SortRequests ==
    [UserIDs : {<<>>},
     Pagination : [After  : {Nil},
                   Before : {Nil},
                   First  : Optional(Limits \cup {MaxUsers}),
                   Last   : {Nil}],
     SortingOptions : SortingOptionSeqs(MaxSortKeys)]

\* requests that page forward under a sort on email
SortAfterRequests ==
    [UserIDs : {<<>>},
     Pagination : [After  : {Some(Hex(id)) : id \in ObjectIDs},
                   Before : {Nil},
                   First  : Optional({MaxLimit}),
                   Last   : {Nil}],
     SortingOptions : {<<[Name |-> "email", Direction |-> d]>> : d \in SortDirections}]

----------------------------------------------------------------------------
(* The MongoDB collection *)

\* a condition on _id; NoCond stands for a key that is not in the filter
NoCond == [op |-> "none", ids |-> {}, id |-> NilObjectID]
InCond(ids) == [op |-> "in", ids |-> ids, id |-> NilObjectID]
GtCond(id) == [op |-> "gt", ids |-> {}, id |-> id]
LtCond(id) == [op |-> "lt", ids |-> {}, id |-> id]

\* bson.M{}: the filter has the keys "_id" (field id) and "$and" (field and)
EmptyFilter == [id |-> NoCond, and |-> NoCond]

\* len(filter)
FilterLen(f) ==
    (IF f.id.op = "none" THEN 0 ELSE 1) + (IF f.and.op = "none" THEN 0 ELSE 1)

\* a condition on _id holds for a document
CondHolds(docID, c) ==
    CASE c.op = "none" -> TRUE
      [] c.op = "in"   -> docID \in c.ids
      [] c.op = "gt"   -> docID > c.id
      [] c.op = "lt"   -> docID < c.id

\* a document matches when it satisfies every key of the filter
Matches(docID, f) == CondHolds(docID, f.id) /\ CondHolds(docID, f.and)

Matching(coll, f) == {docID \in DOMAIN coll : Matches(docID, f)}

\* mutant: a count that stops at the first matching document
CountDocumentsCapped(coll, f) == IF Matching(coll, f) = {} THEN 0 ELSE 1

\* collection.CountDocuments
CountDocuments(coll, f) == Cardinality(Matching(coll, f))

RECURSIVE SortAscending(_)
SortAscending(S) ==
    IF S = {} THEN <<>>
    ELSE LET m == CHOOSE x \in S : \A y \in S : x <= y
         IN  <<m>> \o SortAscending(S \ {m})

Abs(n) == IF n < 0 THEN 0 - n ELSE n

\* the limit of a find: no limit when unset or 0, |limit| documents otherwise
ApplyLimit(rows, limit) ==
    IF ~IsSet(limit) \/ ValueOf(limit) = 0 \/ Abs(ValueOf(limit)) >= Len(rows)
    THEN rows
    ELSE SubSeq(rows, 1, Abs(ValueOf(limit)))

\* the value of a field of a document as the sort compares it: the ObjectID
\* for "_id", the place of the string in the string order for "email", the
\* same null for every document for a field the documents do not have
SortValue(coll, docID, key) ==
    IF key = "_id" THEN docID
    ELSE IF key = "email"
    THEN CHOOSE i \in 1..Len(EmailOrder) : EmailOrder[i] = coll[docID]
    ELSE 0

RECURSIVE SortsBefore(_, _, _, _, _)
\* document x comes before document y under the sort keys k, k+1, ...;
\* documents equal on every key stay in _id order
SortsBefore(coll, x, y, sort, k) ==
    IF k > Len(sort) THEN x < y
    ELSE LET vx == SortValue(coll, x, sort[k].Key)
             vy == SortValue(coll, y, sort[k].Key)
         IN  IF vx = vy THEN SortsBefore(coll, x, y, sort, k + 1)
             ELSE IF sort[k].Value = 1 THEN vx < vy ELSE vx > vy

RECURSIVE SortDocuments(_, _, _)
\* the documents S in the order of the sort specification
SortDocuments(coll, S, sort) ==
    IF S = {} THEN <<>>
    ELSE LET m == CHOOSE x \in S : \A y \in S \ {x} : SortsBefore(coll, x, y, sort, 1)
         IN  <<m>> \o SortDocuments(coll, S \ {m}, sort)

\* collection.Find: the matching documents, in _id order without a sort and
\* in the order of the sort otherwise, cut at the limit
Find(coll, f, opts) ==
    LET ordered == IF opts.Sort = <<>> THEN SortAscending(Matching(coll, f))
                   ELSE SortDocuments(coll, Matching(coll, f), opts.Sort)
        docIDs == ApplyLimit(ordered, opts.Limit)
    IN  [i \in 1..Len(docIDs) |-> [id |-> docIDs[i], email |-> coll[docIDs[i]]]]

----------------------------------------------------------------------------
(* Errors and responses *)

\* repository.NewUnknownErrorWithError(fmt.Sprintf(message + ": %s.", value), err)
\* value is the empty string for the messages that quote nothing
UnknownError(message, value) ==
    [kind |-> "UnknownError", message |-> message, value |-> value]

\* mutant: the error carries the encoding of the decoded ObjectID
UserNotFoundErrorDecoded(userID) ==
    [kind |-> "UserNotFoundError", message |-> "User not found",
     value |-> Hex(ObjectIDFromHex(userID).id)]

\* repository.NewUserNotFoundError(userID)
UserNotFoundError(userID) ==
    [kind |-> "UserNotFoundError", message |-> "User not found", value |-> userID]

\* return nil, err
Failure(err) == [response |-> Nil, err |-> Some(err)]

\* return response, nil
Success(resp) == [response |-> Some(resp), err |-> Nil]

NoResult == [response |-> Nil, err |-> Nil]

\* response := &repository.SearchResponse{HasPreviousPage: false, HasNextPage: false}
NewSearchResponse ==
    [TotalCount |-> 0, Users |-> <<>>, HasNextPage |-> FALSE, HasPreviousPage |-> FALSE]

NoCalls == [connect |-> 0, count |-> 0, find |-> 0, disconnect |-> 0]

NoRequest == [UserIDs |-> <<>>,
              Pagination |-> [After |-> Nil, Before |-> Nil, First |-> Nil, Last |-> Nil],
              SortingOptions |-> <<>>]

NoFindOptions == [Limit |-> Nil, Sort |-> <<>>]

----------------------------------------------------------------------------
(* Search: the code between the store calls *)

\* mutant: a string that does not decode is skipped instead of ending the call
DecodeUserIDsSkipInvalid(userIDs) ==
    LET good == SelectSeq(userIDs, LAMBDA u : ~ObjectIDFromHex(u).err)
    IN  [err |-> FALSE,
         userID |-> <<>>,
         ids |-> [i \in 1..Len(good) |-> ObjectIDFromHex(good[i]).id]]

\* the loop over request.UserIDs: it stops at the first string that does not
\* decode and otherwise collects the ObjectIDs
DecodeUserIDs(userIDs) ==
    LET bad == {i \in 1..Len(userIDs) : ObjectIDFromHex(userIDs[i]).err}
    IN  IF bad # {}
        THEN [err |-> TRUE,
              userID |-> userIDs[CHOOSE i \in bad : \A j \in bad : i <= j],
              ids |-> <<>>]
        ELSE [err |-> FALSE,
              userID |-> <<>>,
              ids |-> [i \in 1..Len(userIDs) |-> ObjectIDFromHex(userIDs[i]).id]]

\* mutant: only the first decoded id reaches the $in condition
IDFilterFirstOnly(userIDs, ids) ==
    IF Len(userIDs) > 0 THEN [EmptyFilter EXCEPT !.id = InCond({ids[1]})] ELSE EmptyFilter

\* filter := bson.M{}; the "_id" $in condition when UserIDs is not empty
IDFilter(userIDs, ids) ==
    IF Len(userIDs) > 0
    THEN [EmptyFilter EXCEPT !.id = InCond({ids[i] : i \in 1..Len(ids)})]
    ELSE EmptyFilter

\* adding a bound on _id: under "$and" when the filter already has a key,
\* under "_id" otherwise
AddBound(f, cond) ==
    IF FilterLen(f) > 0 THEN [f EXCEPT !.and = cond] ELSE [f EXCEPT !.id = cond]

\* the After block followed by the Before block; the first cursor that does
\* not decode ends the call
PaginationFilter(f, pagination) ==
    LET after   == IF IsSet(pagination.After)
                   THEN ObjectIDFromHex(ValueOf(pagination.After))
                   ELSE [id |-> NilObjectID, err |-> FALSE]
        before  == IF IsSet(pagination.Before)
                   THEN ObjectIDFromHex(ValueOf(pagination.Before))
                   ELSE [id |-> NilObjectID, err |-> FALSE]
        fAfter  == IF IsSet(pagination.After) THEN AddBound(f, GtCond(after.id)) ELSE f
        fBefore == IF IsSet(pagination.Before) THEN AddBound(fAfter, LtCond(before.id))
                   ELSE fAfter
    IN  IF after.err
        THEN [err |-> TRUE, filter |-> f,
              error |-> UnknownError("Failed to decode the After", ValueOf(pagination.After))]
        ELSE IF before.err
        THEN [err |-> TRUE, filter |-> f,
              error |-> UnknownError("Failed to decode the Before", ValueOf(pagination.Before))]
        ELSE [err |-> FALSE, filter |-> fBefore,
              error |-> UnknownError("", <<>>)]

\* mutant: the two SetLimit calls in the opposite order, so that First wins
FindLimitFirstWins(pagination) ==
    LET afterLast == IF IsSet(pagination.Last) THEN pagination.Last ELSE Nil
    IN  IF IsSet(pagination.First) THEN pagination.First ELSE afterLast

\* findOptions: SetLimit(First) when First is set, then SetLimit(Last) when
\* Last is set
FindLimit(pagination) ==
    LET afterFirst == IF IsSet(pagination.First) THEN pagination.First ELSE Nil
    IN  IF IsSet(pagination.Last) THEN pagination.Last ELSE afterFirst

\* mutant: every key sorts ascending, whatever the direction asked for
SortOptionPairsAscending(sortingOptions) ==
    [i \in 1..Len(sortingOptions) |-> [Key |-> sortingOptions[i].Name, Value |-> 1]]

\* sortOptionPairs: one (Name, direction) pair per sorting option, in the
\* order of the request; the direction is -1 for Descending and 1 otherwise
SortOptionPairs(sortingOptions) ==
    [i \in 1..Len(sortingOptions) |->
        [Key |-> sortingOptions[i].Name,
         Value |-> IF sortingOptions[i].Direction = "Descending" THEN 0 - 1 ELSE 1]]

\* mutant: the zero-count return is missing
NoUserMatchedNever(totalCount) == FALSE

\* if response.TotalCount == 0: no user matched the filter criteria
NoUserMatched(totalCount) == totalCount = 0

\* mutant: a first rule that sets both flags whenever both cursors are set
PageFlagsBothCursors(pagination, totalCount) ==
    LET after  == IsSet(pagination.After)
        before == IsSet(pagination.Before)
        firstLess == IsSet(pagination.First) /\ ValueOf(pagination.First) < totalCount
        lastLess  == IsSet(pagination.Last) /\ ValueOf(pagination.Last) < totalCount
    IN  IF (after /\ before) \/ (after /\ firstLess) \/ (before /\ lastLess)
        THEN [HasNextPage |-> TRUE, HasPreviousPage |-> TRUE]
        ELSE IF ~after /\ firstLess
        THEN [HasNextPage |-> TRUE, HasPreviousPage |-> FALSE]
        ELSE IF ~before /\ lastLess
        THEN [HasNextPage |-> FALSE, HasPreviousPage |-> TRUE]
        ELSE [HasNextPage |-> FALSE, HasPreviousPage |-> FALSE]

\* mutant: Before with a truncating Last sets HasPreviousPage only
PageFlagsBackwardOnly(pagination, totalCount) ==
    LET after  == IsSet(pagination.After)
        before == IsSet(pagination.Before)
        firstLess == IsSet(pagination.First) /\ ValueOf(pagination.First) < totalCount
        lastLess  == IsSet(pagination.Last) /\ ValueOf(pagination.Last) < totalCount
    IN  IF after /\ firstLess
        THEN [HasNextPage |-> TRUE, HasPreviousPage |-> TRUE]
        ELSE IF before /\ lastLess
        THEN [HasNextPage |-> FALSE, HasPreviousPage |-> TRUE]
        ELSE IF ~after /\ firstLess
        THEN [HasNextPage |-> TRUE, HasPreviousPage |-> FALSE]
        ELSE IF ~before /\ lastLess
        THEN [HasNextPage |-> FALSE, HasPreviousPage |-> TRUE]
        ELSE [HasNextPage |-> FALSE, HasPreviousPage |-> FALSE]

\* mutant: After with a truncating First sets HasNextPage only
PageFlagsForwardOnly(pagination, totalCount) ==
    LET after  == IsSet(pagination.After)
        before == IsSet(pagination.Before)
        firstLess == IsSet(pagination.First) /\ ValueOf(pagination.First) < totalCount
        lastLess  == IsSet(pagination.Last) /\ ValueOf(pagination.Last) < totalCount
    IN  IF before /\ lastLess
        THEN [HasNextPage |-> TRUE, HasPreviousPage |-> TRUE]
        ELSE IF firstLess
        THEN [HasNextPage |-> TRUE, HasPreviousPage |-> FALSE]
        ELSE IF ~before /\ lastLess
        THEN [HasNextPage |-> FALSE, HasPreviousPage |-> TRUE]
        ELSE [HasNextPage |-> FALSE, HasPreviousPage |-> FALSE]

\* mutant: the limits are compared with <= instead of <
PageFlagsLessOrEqual(pagination, totalCount) ==
    LET after  == IsSet(pagination.After)
        before == IsSet(pagination.Before)
        firstLess == IsSet(pagination.First) /\ ValueOf(pagination.First) <= totalCount
        lastLess  == IsSet(pagination.Last) /\ ValueOf(pagination.Last) <= totalCount
    IN  IF (after /\ firstLess) \/ (before /\ lastLess)
        THEN [HasNextPage |-> TRUE, HasPreviousPage |-> TRUE]
        ELSE IF ~after /\ firstLess
        THEN [HasNextPage |-> TRUE, HasPreviousPage |-> FALSE]
        ELSE IF ~before /\ lastLess
        THEN [HasNextPage |-> FALSE, HasPreviousPage |-> TRUE]
        ELSE [HasNextPage |-> FALSE, HasPreviousPage |-> FALSE]

\* mutant: the second and third rule need both cursors to be absent, so that
\* After with Last and Before with First fall through to false, false
PageFlagsNoCursorOnly(pagination, totalCount) ==
    LET after  == IsSet(pagination.After)
        before == IsSet(pagination.Before)
        firstLess == IsSet(pagination.First) /\ ValueOf(pagination.First) < totalCount
        lastLess  == IsSet(pagination.Last) /\ ValueOf(pagination.Last) < totalCount
    IN  IF (after /\ firstLess) \/ (before /\ lastLess)
        THEN [HasNextPage |-> TRUE, HasPreviousPage |-> TRUE]
        ELSE IF ~after /\ ~before /\ firstLess
        THEN [HasNextPage |-> TRUE, HasPreviousPage |-> FALSE]
        ELSE IF ~after /\ ~before /\ lastLess
        THEN [HasNextPage |-> FALSE, HasPreviousPage |-> TRUE]
        ELSE [HasNextPage |-> FALSE, HasPreviousPage |-> FALSE]

\* mutant: After with a truncating First takes the second rule
PageFlagsAfterFirstNextOnly(pagination, totalCount) ==
    LET after  == IsSet(pagination.After)
        before == IsSet(pagination.Before)
        firstLess == IsSet(pagination.First) /\ ValueOf(pagination.First) < totalCount
        lastLess  == IsSet(pagination.Last) /\ ValueOf(pagination.Last) < totalCount
    IN  IF before /\ lastLess
        THEN [HasNextPage |-> TRUE, HasPreviousPage |-> TRUE]
        ELSE IF firstLess
        THEN [HasNextPage |-> TRUE, HasPreviousPage |-> FALSE]
        ELSE IF ~before /\ lastLess
        THEN [HasNextPage |-> FALSE, HasPreviousPage |-> TRUE]
        ELSE [HasNextPage |-> FALSE, HasPreviousPage |-> FALSE]

\* mutant: the limits are compared with the number of fetched users
PageFlagsEntryCount(pagination, totalCount) ==
    LET after  == IsSet(pagination.After)
        before == IsSet(pagination.Before)
        firstLess == IsSet(pagination.First) /\ ValueOf(pagination.First) < Len(response.Users)
        lastLess  == IsSet(pagination.Last) /\ ValueOf(pagination.Last) < Len(response.Users)
    IN  IF (after /\ firstLess) \/ (before /\ lastLess)
        THEN [HasNextPage |-> TRUE, HasPreviousPage |-> TRUE]
        ELSE IF ~after /\ firstLess
        THEN [HasNextPage |-> TRUE, HasPreviousPage |-> FALSE]
        ELSE IF ~before /\ lastLess
        THEN [HasNextPage |-> FALSE, HasPreviousPage |-> TRUE]
        ELSE [HasNextPage |-> FALSE, HasPreviousPage |-> FALSE]

\* the page flags computed from the pagination and the total count
PageFlags(pagination, totalCount) ==
    LET after  == IsSet(pagination.After)
        before == IsSet(pagination.Before)
        firstLess == IsSet(pagination.First) /\ ValueOf(pagination.First) < totalCount
        lastLess  == IsSet(pagination.Last) /\ ValueOf(pagination.Last) < totalCount
    IN  IF (after /\ firstLess) \/ (before /\ lastLess)
        THEN [HasNextPage |-> TRUE, HasPreviousPage |-> TRUE]
        ELSE IF ~after /\ firstLess
        THEN [HasNextPage |-> TRUE, HasPreviousPage |-> FALSE]
        ELSE IF ~before /\ lastLess
        THEN [HasNextPage |-> FALSE, HasPreviousPage |-> TRUE]
        ELSE [HasNextPage |-> FALSE, HasPreviousPage |-> FALSE]

\* one document of the result turned into a models.UserWithCursor
UserWithCursor(doc) ==
    [UserID |-> Hex(doc.id), User |-> [Email |-> doc.email], Cursor |-> Hex(doc.id)]

----------------------------------------------------------------------------
(* The layers above the repository: endpoint, business service, encoder *)

\* the goroutines that call Search concurrently
Calls == 1..MaxCalls

\* the requests of the concurrent calls: a filter that does not decode, a
\* filter of two users, and a cursor with a page size
ConcurrentRequests ==
    {[UserIDs |-> <<NonHexString>>,
      Pagination |-> [After |-> Nil, Before |-> Nil, First |-> Nil, Last |-> Nil],
      SortingOptions |-> <<>>],
     [UserIDs |-> <<Hex(MinID), Hex(MinID + 1)>>,
      Pagination |-> [After |-> Nil, Before |-> Nil, First |-> Nil, Last |-> Nil],
      SortingOptions |-> <<>>],
     [UserIDs |-> <<>>,
      Pagination |-> [After |-> Some(Hex(MinID)), Before |-> Nil,
                      First |-> Some(MaxLimit), Last |-> Nil],
      SortingOptions |-> <<>>]}

\* the local variables of a Search call when it is entered
NewLocals ==
    [filter |-> EmptyFilter, findOptions |-> NoFindOptions,
     response |-> NewSearchResponse, cursor |-> <<>>, users |-> <<>>]

\* the store has failed no operation of a call
NoFailure == [at |-> "none", delivered |-> 0]

\* no Search call runs; failure is what the store did to the call: the
\* operation it failed and, when the cursor ended early, after how many
\* documents
NoSearches ==
    [pc |-> [c \in Calls |-> "idle"],
     request |-> [c \in Calls |-> NoRequest],
     result |-> [c \in Calls |-> NoResult],
     failure |-> [c \in Calls |-> NoFailure],
     locals |-> [c \in Calls |-> NewLocals]]

\* mutant: the variables of Search are fields of the service, shared by every
\* call
LocalsOfService(c) == 1

\* the local variables of a call are its own
LocalsOf(c) == c

\* Search from its first to its last line, alone, against a store that does
\* not change and fails the call as failure says
SearchAlone(coll, req, failure) ==
    LET decoded == DecodeUserIDs(req.UserIDs)
        idFilter == IDFilter(req.UserIDs, decoded.ids)
        total == CountDocuments(coll, idFilter)
        counted == [NewSearchResponse EXCEPT !.TotalCount = total]
        bounded == PaginationFilter(idFilter, req.Pagination)
        docs == Find(coll, bounded.filter,
                     [Limit |-> FindLimit(req.Pagination),
                      Sort |-> SortOptionPairs(req.SortingOptions)])
        delivered == IF failure.at = "next" /\ failure.delivered < Len(docs)
                     THEN failure.delivered ELSE Len(docs)
        flags == PageFlags(req.Pagination, total)
    IN  IF decoded.err
        THEN Failure(UnknownError("Failed to decode the userID", decoded.userID))
        ELSE IF failure.at = "connect"
        THEN Failure(UnknownError("Could not connect to mongodb database.", <<>>))
        ELSE IF failure.at = "count"
        THEN Failure(UnknownError(
                 "Failed to retrieve the number of users that match the filter criteria",
                 <<>>))
        ELSE IF NoUserMatched(total) THEN Success(counted)
        ELSE IF bounded.err THEN Failure(bounded.error)
        ELSE IF failure.at = "find"
        THEN Failure(UnknownError(
                 "Failed to call the Find function on the collection.", <<>>))
        ELSE IF failure.at = "decode"
        THEN Failure(UnknownError("Failed to decode the user", <<>>))
        ELSE IF failure.at = "load"
        THEN Failure(UnknownError("Could not load the data.", <<>>))
        ELSE Success([counted EXCEPT
                         !.Users = [i \in 1..delivered |-> UserWithCursor(docs[i])],
                         !.HasNextPage = flags.HasNextPage,
                         !.HasPreviousPage = flags.HasPreviousPage])

\* func init(): Start has not been called, Live and Ready are false
NewTransport ==
    [pc |-> "new", Live |-> FALSE, Ready |-> FALSE, err |-> Nil, stopped |-> FALSE]

\* what makes Start return before it serves
StartFailures == {"GetGrpcHost", "GetGrpcPort", "net.Listen"}

\* no call is in flight
NoRpc == [pc |-> "idle"]

\* the empty string as a UserID
EmptyString == <<>>

\* repository.NewUserAlreadyExistsError()
UserAlreadyExistsError ==
    [kind |-> "UserAlreadyExistsError", message |-> "User already exists", value |-> <<>>]

\* repository.NewUserByEmailNotFoundError(email)
UserByEmailNotFoundError(email) ==
    [kind |-> "UserByEmailNotFoundError", message |-> "User not found", email |-> email]

\* errors.New(...): an error of no type of the repository package
PlainError == [kind |-> "error", message |-> "error", value |-> <<>>]

\* repository.IsUserAlreadyExistsError, IsUserNotFoundError and
\* IsUserByEmailNotFoundError: type assertions on the error value
IsUserAlreadyExistsError(err) == err.kind = "UserAlreadyExistsError"
IsUserNotFoundError(err) == err.kind = "UserNotFoundError"
IsUserByEmailNotFoundError(err) == err.kind = "UserByEmailNotFoundError"

\* the errors of the business package; Err is the wrapped error that
\* errors.Unwrap returns
BusinessUnknownError(message, err) ==
    [kind |-> "business.UnknownError", Message |-> message, Err |-> err]
BusinessUserAlreadyExistsError(err) ==
    [kind |-> "business.UserAlreadyExistsError", Err |-> err]
BusinessUserNotFoundError(userID, err) ==
    [kind |-> "business.UserNotFoundError", UserID |-> userID, Err |-> err]
BusinessUserByEmailNotFoundError(email, err) ==
    [kind |-> "business.UserByEmailNotFoundError", Email |-> email, Err |-> err]

\* commonErrors.NewArgumentNilError(argumentName, message) and
\* commonErrors.NewArgumentErrorWithError(argumentName, message, err)
ArgumentNilError(argumentName) ==
    [kind |-> "ArgumentNilError", ArgumentName |-> argumentName, Err |-> Nil]
ArgumentError(argumentName, err) ==
    [kind |-> "ArgumentError", ArgumentName |-> argumentName, Err |-> Some(err)]

\* mutant: the user ID of the request is not handed to the new error
mapRepositoryErrorEmptyUserID(err, userID, email) ==
    IF IsUserAlreadyExistsError(err) THEN BusinessUserAlreadyExistsError(err)
    ELSE IF IsUserNotFoundError(err) THEN BusinessUserNotFoundError(EmptyString, err)
    ELSE IF IsUserByEmailNotFoundError(err)
    THEN BusinessUserByEmailNotFoundError(email, err)
    ELSE BusinessUnknownError("", err)

\* mapRepositoryError
mapRepositoryError(err, userID, email) ==
    IF IsUserAlreadyExistsError(err) THEN BusinessUserAlreadyExistsError(err)
    ELSE IF IsUserNotFoundError(err) THEN BusinessUserNotFoundError(userID, err)
    ELSE IF IsUserByEmailNotFoundError(err)
    THEN BusinessUserByEmailNotFoundError(email, err)
    ELSE BusinessUnknownError("", err)

\* a response of the business service: Err, and the other fields when Err
\* is nil
ErrResponse(err) == [Err |-> Some(err), Body |-> Nil]
OkResponse(body) == [Err |-> Nil, Body |-> Some(body)]

\* the methods of businessService, given what the repository returned
BusinessCreateUser(req, returned) ==
    IF IsSet(returned.err)
    THEN ErrResponse(mapRepositoryError(ValueOf(returned.err), EmptyString, ""))
    ELSE LET r == ValueOf(returned.response)
         IN  OkResponse([UserID |-> r.UserID, User |-> r.User, Cursor |-> r.Cursor])

BusinessReadUser(req, returned) ==
    IF IsSet(returned.err)
    THEN ErrResponse(mapRepositoryError(ValueOf(returned.err), req.UserID, ""))
    ELSE OkResponse([User |-> ValueOf(returned.response).User])

BusinessReadUserByEmail(req, returned) ==
    IF IsSet(returned.err)
    THEN ErrResponse(mapRepositoryError(ValueOf(returned.err), EmptyString, req.Email))
    ELSE LET r == ValueOf(returned.response)
         IN  OkResponse([UserID |-> r.UserID, User |-> r.User])

BusinessUpdateUser(req, returned) ==
    IF IsSet(returned.err)
    THEN ErrResponse(mapRepositoryError(ValueOf(returned.err), req.UserID, ""))
    ELSE LET r == ValueOf(returned.response)
         IN  OkResponse([User |-> r.User, Cursor |-> r.Cursor])

BusinessDeleteUser(req, returned) ==
    IF IsSet(returned.err)
    THEN ErrResponse(mapRepositoryError(ValueOf(returned.err), req.UserID, ""))
    ELSE OkResponse([deleted |-> 1])

BusinessSearch(req, returned) ==
    IF IsSet(returned.err)
    THEN ErrResponse(mapRepositoryError(ValueOf(returned.err), EmptyString, ""))
    ELSE LET r == ValueOf(returned.response)
         IN  OkResponse([HasPreviousPage |-> r.HasPreviousPage,
                         HasNextPage |-> r.HasNextPage,
                         TotalCount |-> r.TotalCount,
                         Users |-> r.Users])

\* the method of the business service an endpoint calls
BusinessService(name, req, returned) ==
    CASE name = "CreateUser" -> BusinessCreateUser(req, returned)
      [] name = "ReadUser" -> BusinessReadUser(req, returned)
      [] name = "ReadUserByEmail" -> BusinessReadUserByEmail(req, returned)
      [] name = "UpdateUser" -> BusinessUpdateUser(req, returned)
      [] name = "DeleteUser" -> BusinessDeleteUser(req, returned)
      [] name = "Search" -> BusinessSearch(req, returned)

\* is.Email: the strings that are well-formed email addresses
IsEmail(email) == email \in Emails \cup SortEmails

\* what ozzo-validation returns for the fields that fail their rules
ValidationErrors(fields) ==
    IF fields = {} THEN Nil ELSE Some([kind |-> "validation.Errors", fields |-> fields])

\* models.User.Validate: Email is required and is an email address
ValidateUser(user) ==
    IF user.Email = "" \/ ~IsEmail(user.Email) THEN {"Email"} ELSE {}

\* the Validate method of the request of each endpoint
Validate(name, req) ==
    CASE name = "CreateUser" ->
            ValidationErrors(IF ValidateUser(req.User) # {} THEN {"User"} ELSE {})
      [] name \in {"ReadUser", "DeleteUser"} ->
            ValidationErrors(IF req.UserID = EmptyString THEN {"UserID"} ELSE {})
      [] name = "ReadUserByEmail" ->
            ValidationErrors(IF req.Email = "" \/ ~IsEmail(req.Email)
                             THEN {"Email"} ELSE {})
      [] name = "UpdateUser" ->
            ValidationErrors((IF req.UserID = EmptyString THEN {"UserID"} ELSE {})
                             \cup (IF ValidateUser(req.User) # {} THEN {"User"} ELSE {}))
      [] name = "Search" -> Nil

\* mutant: the request is checked before the context
EndpointGuardRequestFirst(name, c, req) ==
    IF req = Nil THEN Some(ErrResponse(ArgumentNilError("request")))
    ELSE IF c = Nil THEN Some(ErrResponse(ArgumentNilError("ctx")))
    ELSE IF IsSet(Validate(name, ValueOf(req)))
    THEN Some(ErrResponse(ArgumentError("request", ValueOf(Validate(name, ValueOf(req))))))
    ELSE Nil

\* the three guards of an endpoint: the response it returns without calling
\* the business service, or nothing when the business service is called
EndpointGuard(name, c, req) ==
    IF c = Nil THEN Some(ErrResponse(ArgumentNilError("ctx")))
    ELSE IF req = Nil THEN Some(ErrResponse(ArgumentNilError("request")))
    ELSE IF IsSet(Validate(name, ValueOf(req)))
    THEN Some(ErrResponse(ArgumentError("request", ValueOf(Validate(name, ValueOf(req))))))
    ELSE Nil

\* mapError: the wire error code of an error, or the panic
mapError(err) ==
    IF err.kind = "business.UnknownError" THEN "UNKNOWN"
    ELSE IF err.kind = "business.UserAlreadyExistsError" THEN "USER_ALREADY_EXISTS"
    ELSE IF err.kind = "business.UserNotFoundError" THEN "USER_NOT_FOUND"
    ELSE IF err.kind = "ArgumentNilError" \/ err.kind = "ArgumentError" THEN "BAD_REQUEST"
    ELSE "panic: Error type undefined."

\* the text of the error of the driver an UnknownError wraps
DriverError == "driver error"

\* Error() of the errors of the repository package, as a sequence of pieces
\* of text. Every UnknownError is made by NewUnknownErrorWithError and has
\* the error of the driver in Err; the messages of the decoding failures
\* quote the string that did not decode. UserAlreadyExistsError and
\* UserNotFoundError are made without an error to wrap.
RepositoryErrorString(err) ==
    CASE err.kind = "UnknownError" ->
            <<"Unknown error occurred. Error message: ", err.message>>
                \o (IF err.message \in {"Failed to decode the userID",
                                        "Failed to decode the After",
                                        "Failed to decode the Before"}
                    THEN <<": ">> \o err.value \o <<".">> ELSE <<>>)
                \o <<". Error: ", DriverError>>
      [] err.kind = "UserAlreadyExistsError" -> <<"User already exists.">>
      [] err.kind = "UserNotFoundError" ->
            <<"User not found. Email: ">> \o err.value \o <<".">>

RECURSIVE ErrorString(_)
\* err.Error() of the errors that reach an encoder, as a sequence of pieces
\* of text: the message of the type with the value it quotes, then the text
\* of the error it wraps
ErrorString(err) ==
    CASE err.kind \in {"UnknownError", "UserAlreadyExistsError", "UserNotFoundError"} ->
            RepositoryErrorString(err)
      [] err.kind = "UserByEmailNotFoundError" ->
            <<"User not found. Email: ", err.email, ".">>
      [] err.kind = "error" -> <<err.message>>
      [] err.kind = "validation.Errors" -> <<"validation.Errors">>
      [] err.kind = "business.UnknownError" ->
            <<"Unknown error occurred. Error message: ", err.Message, ". Error: ">>
                \o ErrorString(err.Err)
      [] err.kind = "business.UserAlreadyExistsError" ->
            <<"User already exists. Error: ">> \o ErrorString(err.Err)
      [] err.kind = "business.UserNotFoundError" ->
            <<"User not found. UserID: ">> \o err.UserID \o <<". Error: ">>
                \o ErrorString(err.Err)
      [] err.kind = "business.UserByEmailNotFoundError" ->
            <<"User not found. Email: ", err.Email, ". Error: ">>
                \o ErrorString(err.Err)
      [] err.kind = "ArgumentNilError" -> <<err.ArgumentName, " is required">>
      [] err.kind = "ArgumentError" ->
            <<err.ArgumentName, ": ">> \o ErrorString(ValueOf(err.Err))

\* the fields of the response an encoder copies to the wire when Err is nil:
\* encodeReadUserByEmailResponse copies the User only, the others every field
WireFields(name, body) ==
    IF name = "ReadUserByEmail" THEN [User |-> body.User] ELSE body

\* encode...Response: NO_ERROR and the fields of the response when Err is
\* nil, the code mapError gives and the text of the error otherwise
EncodeResponse(name, resp) ==
    IF ~IsSet(resp.Err)
    THEN [Error |-> "NO_ERROR", ErrorMessage |-> <<>>,
          Body |-> Some(WireFields(name, ValueOf(resp.Body)))]
    ELSE [Error |-> mapError(ValueOf(resp.Err)),
          ErrorMessage |-> ErrorString(ValueOf(resp.Err)),
          Body |-> Nil]

\* the endpoints
EndpointNames ==
    {"CreateUser", "ReadUser", "ReadUserByEmail", "UpdateUser", "DeleteUser", "Search"}

\* a nil and a non-nil context.Context
Contexts == Optional({"ctx"})

\* user IDs and email addresses callers put in requests
ServiceUserIDs == {EmptyString, Hex(MinID)}
ServiceEmails == {"", "name"} \cup Emails

\* the requests an endpoint is called with
ServiceRequests(name) ==
    CASE name = "CreateUser" -> [User : [Email : ServiceEmails]]
      [] name \in {"ReadUser", "DeleteUser"} -> [UserID : ServiceUserIDs]
      [] name = "ReadUserByEmail" -> [Email : ServiceEmails]
      [] name = "UpdateUser" -> [UserID : ServiceUserIDs, User : [Email : ServiceEmails]]
      [] name = "Search" -> PlainRequests

\* the five operations the tests of the business service exercise
UserOperations == {"CreateUser", "ReadUser", "UpdateUser", "DeleteUser", "Search"}

\* the response the mock returns when the test has the call succeed
RepositoryResponse(name, req) ==
    CASE name = "CreateUser" ->
            [UserID |-> Hex(MinID), User |-> req.User, Cursor |-> Hex(MinID)]
      [] name = "ReadUser" -> [User |-> [Email |-> "a@test.com"]]
      [] name = "UpdateUser" -> [User |-> req.User, Cursor |-> req.UserID]
      [] name = "DeleteUser" -> [deleted |-> 1]
      [] name = "Search" -> NewSearchResponse

\* what the tests have the mock return from each method: CreateUser
\* NewUserAlreadyExistsError(), ReadUser, UpdateUser and DeleteUser
\* NewUserNotFoundError(request.UserID), every method errors.New(...) and
\* a response
RepositoryReturns(name, req) ==
    (CASE name = "CreateUser" -> {Failure(UserAlreadyExistsError)}
       [] name \in {"ReadUser", "UpdateUser", "DeleteUser"} ->
             {Failure(UserNotFoundError(req.UserID))}
       [] name = "Search" -> {})
    \cup {Failure(PlainError), Success(RepositoryResponse(name, req))}

----------------------------------------------------------------------------
(* The state machine *)

\* strings a caller passes as the UserID of DeleteUser
UserIDStrings == {Hex(id) : id \in ObjectIDs} \cup {UpperHex(MinID + 1), NonHexString}

Init ==
    /\ users = <<>>
    /\ nextID = MinID
    /\ pc = "idle"
    /\ op = "none"
    /\ request = NoRequest
    /\ filter = EmptyFilter
    /\ findOptions = NoFindOptions
    /\ cursor = <<>>
    /\ response = NewSearchResponse
    /\ result = NoResult
    /\ calls = NoCalls
    /\ fault = "none"
    /\ ctx = "live"
    /\ written = <<>>
    /\ rpc = NoRpc
    /\ observed = Nil
    /\ paging = NoPaging
    /\ between = {}
    /\ transport = NewTransport
    /\ searches = NoSearches

\* the call made one more store operation of the given kind
Called(c, kind) == [c EXCEPT ![kind] = @ + 1]

\* mutant: a return that leaves the deferred disconnect out
ReturnStillConnected(res, c) ==
    /\ pc' = "done"
    /\ result' = res
    /\ calls' = c

\* the handler returns res after the client was created: the deferred
\* disconnect runs
ReturnDisconnected(res, c) ==
    /\ pc' = "done"
    /\ result' = res
    /\ calls' = Called(c, "disconnect")

\* Search up to and including createClientAndCollection
SearchStart(req) ==
    /\ UNCHANGED <<rpc, historyVars, transport, searches>>
    /\ between' = {}
    /\ pc = "idle"
    /\ op' = "Search"
    /\ request' = req
    /\ response' = NewSearchResponse
    /\ UNCHANGED <<users, nextID, findOptions, cursor, ctx, written>>
    /\ LET decoded == DecodeUserIDs(req.UserIDs)
       IN  IF decoded.err
           THEN /\ pc' = "done"
                /\ result' = Failure(UnknownError("Failed to decode the userID",
                                                  decoded.userID))
                /\ UNCHANGED <<filter, calls, fault>>
           ELSE /\ filter' = IDFilter(req.UserIDs, decoded.ids)
                /\ calls' = Called(calls, "connect")
                /\ \/ /\ pc' = "count"
                      /\ UNCHANGED <<result, fault>>
                   \/ /\ fault' = "connect"
                      /\ pc' = "done"
                      /\ result' = Failure(UnknownError(
                             "Could not connect to mongodb database.", <<>>))

\* CountDocuments, the zero-count return, the After and Before blocks and
\* the find options
SearchCount ==
    /\ UNCHANGED serviceVars
    /\ pc = "count"
    /\ op = "Search"
    /\ UNCHANGED <<users, nextID, op, request, cursor, ctx, written>>
    /\ \/ /\ fault' = "count"
          /\ ReturnDisconnected(Failure(UnknownError(
                 "Failed to retrieve the number of users that match the filter criteria",
                 <<>>)), Called(calls, "count"))
          /\ UNCHANGED <<filter, findOptions, response>>
       \/ /\ ctx = "live"
          /\ UNCHANGED fault
          /\ LET total == CountDocuments(users, filter)
                 bounded == PaginationFilter(filter, request.Pagination)
             IN  /\ response' = [response EXCEPT !.TotalCount = total]
                 /\ IF NoUserMatched(total)
                    THEN /\ ReturnDisconnected(Success(response'), Called(calls, "count"))
                         /\ UNCHANGED <<filter, findOptions>>
                    ELSE IF bounded.err
                    THEN /\ ReturnDisconnected(Failure(bounded.error),
                                               Called(calls, "count"))
                         /\ UNCHANGED <<filter, findOptions>>
                    ELSE /\ pc' = "find"
                         /\ filter' = bounded.filter
                         /\ findOptions' = [Limit |-> FindLimit(request.Pagination),
                                            Sort |-> SortOptionPairs(request.SortingOptions)]
                         /\ calls' = Called(calls, "count")
                         /\ UNCHANGED result

\* collection.Find
SearchFind ==
    /\ UNCHANGED serviceVars
    /\ pc = "find"
    /\ op = "Search"
    /\ UNCHANGED <<users, nextID, op, request, filter, findOptions, response,
                   ctx, written>>
    /\ \/ /\ fault' = "find"
          /\ ReturnDisconnected(Failure(UnknownError(
                 "Failed to call the Find function on the collection.", <<>>)),
                 Called(calls, "find"))
          /\ UNCHANGED cursor
       \/ /\ ctx = "live"
          /\ cursor' = Find(users, filter, findOptions)
          /\ pc' = "next"
          /\ calls' = Called(calls, "find")
          /\ UNCHANGED <<result, fault>>

\* the code after the loop: the users, the page flags, return response, nil
SearchFinish(resp) ==
    LET flags == PageFlags(request.Pagination, resp.TotalCount)
    IN  /\ response' = [resp EXCEPT !.HasNextPage = flags.HasNextPage,
                                    !.HasPreviousPage = flags.HasPreviousPage]
        /\ ReturnDisconnected(Success(response'), calls)

\* one evaluation of cursor.Next(ctx) and the loop body or the loop exit
SearchNext ==
    /\ UNCHANGED serviceVars
    /\ pc = "next"
    /\ op = "Search"
    /\ UNCHANGED <<users, nextID, op, request, filter, findOptions, ctx, written>>
    /\ \/ \* Next delivers a document and both Decode calls succeed
          /\ cursor # <<>>
          /\ response' = [response EXCEPT
                             !.Users = Append(@, UserWithCursor(Head(cursor)))]
          /\ cursor' = Tail(cursor)
          /\ UNCHANGED <<pc, result, calls, fault>>
       \/ \* Next delivers a document and cursor.Decode(&user) fails
          /\ cursor # <<>>
          /\ fault' = "decode"
          /\ ReturnDisconnected(Failure(UnknownError("Failed to decode the user", <<>>)),
                                calls)
          /\ cursor' = Tail(cursor)
          /\ UNCHANGED response
       \/ \* Next delivers a document and cursor.Decode(&userBson) fails
          /\ cursor # <<>>
          /\ fault' = "load"
          /\ ReturnDisconnected(Failure(UnknownError("Could not load the data.", <<>>)),
                                calls)
          /\ cursor' = Tail(cursor)
          /\ UNCHANGED response
       \/ \* Next returns false because the cursor is exhausted
          /\ cursor = <<>>
          /\ SearchFinish(response)
          /\ UNCHANGED <<cursor, fault>>
       \/ \* Next returns false because the store failed or ctx was cancelled;
          \* cursor.Err() is not read
          /\ fault' = "next"
          /\ SearchFinish(response)
          /\ UNCHANGED cursor

\* the call is over: its local variables and its context are gone
CallOver ==
    /\ pc = "done"
    /\ pc' = "idle"
    /\ op' = "none"
    /\ request' = NoRequest
    /\ filter' = EmptyFilter
    /\ findOptions' = NoFindOptions
    /\ cursor' = <<>>
    /\ response' = NewSearchResponse
    /\ result' = NoResult
    /\ calls' = NoCalls
    /\ fault' = "none"
    /\ ctx' = "live"
    /\ UNCHANGED <<users, nextID, written>>

\* the caller has the result; the next call can start
Return == UNCHANGED serviceVars /\ CallOver

\* CreateUser: connect, InsertOne, the deferred disconnect
CreateUser(email) ==
    /\ UNCHANGED serviceVars
    /\ pc = "idle"
    /\ nextID < MinID + MaxUsers
    /\ op' = "CreateUser"
    /\ pc' = "done"
    /\ UNCHANGED <<request, filter, findOptions, cursor, response, ctx>>
    /\ \/ /\ fault' = "connect"
          /\ calls' = Called(calls, "connect")
          /\ result' = Failure(UnknownError("Could not connect to mongodb database.", <<>>))
          /\ UNCHANGED <<users, nextID, written>>
       \/ /\ fault' = "insert"
          /\ calls' = Called(Called(calls, "connect"), "disconnect")
          /\ result' = Failure(UnknownError("Insert user failed.", <<>>))
          /\ UNCHANGED <<users, nextID, written>>
       \/ /\ users' = (nextID :> email) @@ users
          /\ written' = (nextID :> email) @@ written
          /\ nextID' = nextID + 1
          /\ calls' = Called(Called(calls, "connect"), "disconnect")
          /\ result' = Success([UserID |-> Hex(nextID), User |-> [Email |-> email],
                                Cursor |-> Hex(nextID)])
          /\ UNCHANGED fault

\* DeleteUser: connect, DeleteOne on the decoded _id (the decoding error is
\* dropped), the deferred disconnect
DeleteUser(userID) ==
    /\ UNCHANGED serviceVars
    /\ pc = "idle"
    /\ op' = "DeleteUser"
    /\ pc' = "done"
    /\ request' = [UserID |-> userID]
    /\ UNCHANGED <<nextID, filter, findOptions, cursor, response, ctx>>
    /\ \/ /\ fault' = "connect"
          /\ calls' = Called(calls, "connect")
          /\ result' = Failure(UnknownError("Could not connect to mongodb database.", <<>>))
          /\ UNCHANGED <<users, written>>
       \/ /\ fault' = "delete"
          /\ calls' = Called(Called(calls, "connect"), "disconnect")
          /\ result' = Failure(UnknownError("Delete user failed.", <<>>))
          /\ UNCHANGED <<users, written>>
       \/ /\ UNCHANGED fault
          /\ calls' = Called(Called(calls, "connect"), "disconnect")
          /\ LET objectID == ObjectIDFromHex(userID).id
             IN  IF objectID \in DOMAIN users
                 THEN /\ users' = [id \in DOMAIN users \ {objectID} |-> users[id]]
                      /\ written' = [id \in DOMAIN written \ {objectID} |-> written[id]]
                      /\ result' = Success([deleted |-> 1])
                 ELSE /\ result' = Failure(UserNotFoundError(userID))
                      /\ UNCHANGED <<users, written>>

\* ReadUser: connect, FindOne on the decoded _id (the decoding error is
\* dropped) and Decode, every error of which is reported as user not found,
\* the deferred disconnect
ReadUser(userID) ==
    /\ UNCHANGED serviceVars
    /\ pc = "idle"
    /\ op' = "ReadUser"
    /\ pc' = "done"
    /\ request' = [UserID |-> userID]
    /\ UNCHANGED <<users, nextID, filter, findOptions, cursor, response, ctx, written>>
    /\ \/ /\ fault' = "connect"
          /\ calls' = Called(calls, "connect")
          /\ result' = Failure(UnknownError("Could not connect to mongodb database.", <<>>))
       \/ /\ fault' = "findone"
          /\ calls' = Called(Called(calls, "connect"), "disconnect")
          /\ result' = Failure(UserNotFoundError(userID))
       \/ /\ UNCHANGED fault
          /\ calls' = Called(Called(calls, "connect"), "disconnect")
          /\ LET objectID == ObjectIDFromHex(userID).id
             IN  IF objectID \in DOMAIN users
                 THEN result' = Success([User |-> [Email |-> users[objectID]]])
                 ELSE result' = Failure(UserNotFoundError(userID))

\* ReadUserByEmail: connect, FindOne on the email and Decode, every error of
\* which is reported as user not found, the deferred disconnect; the
\* response has the User, its UserID stays empty
ReadUserByEmail(email) ==
    /\ UNCHANGED serviceVars
    /\ pc = "idle"
    /\ op' = "ReadUserByEmail"
    /\ pc' = "done"
    /\ request' = [Email |-> email]
    /\ UNCHANGED <<users, nextID, filter, findOptions, cursor, response, ctx, written>>
    /\ \/ /\ fault' = "connect"
          /\ calls' = Called(calls, "connect")
          /\ result' = Failure(UnknownError("Could not connect to mongodb database.", <<>>))
       \/ /\ fault' = "findone"
          /\ calls' = Called(Called(calls, "connect"), "disconnect")
          /\ result' = Failure(UserByEmailNotFoundError(email))
       \/ /\ UNCHANGED fault
          /\ calls' = Called(Called(calls, "connect"), "disconnect")
          /\ IF \E id \in DOMAIN users : users[id] = email
             THEN result' = Success([UserID |-> EmptyString, User |-> [Email |-> email]])
             ELSE result' = Failure(UserByEmailNotFoundError(email))

\* mutant: the update is applied to the oldest stored document
UpdateOneOldest(coll, objectID, email) ==
    IF coll = <<>> THEN [matched |-> 0, coll |-> coll]
    ELSE LET oldest == CHOOSE id \in DOMAIN coll : \A other \in DOMAIN coll : id <= other
         IN  [matched |-> 1, coll |-> [coll EXCEPT ![oldest] = email]]

\* collection.UpdateOne with the filter {_id: objectID} and {$set: {email}}:
\* the number of matched documents and the collection afterwards
UpdateOne(coll, objectID, email) ==
    IF objectID \in DOMAIN coll
    THEN [matched |-> 1, coll |-> [coll EXCEPT ![objectID] = email]]
    ELSE [matched |-> 0, coll |-> coll]

\* mutant: the cursor of the response is the canonical encoding of the ID
UpdateUserResponseCanonical(userID, email) ==
    [User |-> [Email |-> email], Cursor |-> Hex(ObjectIDFromHex(userID).id)]

\* &repository.UpdateUserResponse{User: request.User, Cursor: request.UserID}
UpdateUserResponse(userID, email) ==
    [User |-> [Email |-> email], Cursor |-> userID]

\* UpdateUser: connect, UpdateOne on the decoded _id (the decoding error is
\* dropped), the deferred disconnect
UpdateUser(userID, email) ==
    /\ UNCHANGED serviceVars
    /\ pc = "idle"
    /\ op' = "UpdateUser"
    /\ pc' = "done"
    /\ request' = [UserID |-> userID, User |-> [Email |-> email]]
    /\ UNCHANGED <<nextID, filter, findOptions, cursor, response, ctx>>
    /\ \/ /\ fault' = "connect"
          /\ calls' = Called(calls, "connect")
          /\ result' = Failure(UnknownError("Could not connect to mongodb database.", <<>>))
          /\ UNCHANGED <<users, written>>
       \/ /\ fault' = "update"
          /\ calls' = Called(Called(calls, "connect"), "disconnect")
          /\ result' = Failure(UnknownError("Update user failed.", <<>>))
          /\ UNCHANGED <<users, written>>
       \/ /\ UNCHANGED fault
          /\ calls' = Called(Called(calls, "connect"), "disconnect")
          /\ LET objectID == ObjectIDFromHex(userID).id
                 updated == UpdateOne(users, objectID, email)
             IN  /\ users' = updated.coll
                 /\ IF updated.matched = 0
                    THEN /\ result' = Failure(UserNotFoundError(userID))
                         /\ UNCHANGED written
                    ELSE /\ result' = Success(UpdateUserResponse(userID, email))
                         /\ written' = (objectID :> email) @@ written

\* the caller cancels the context of the Search in flight
Cancel ==
    /\ UNCHANGED serviceVars
    /\ op = "Search"
    /\ pc \in {"count", "find", "next"}
    /\ ctx = "live"
    /\ ctx' = "cancelled"
    /\ UNCHANGED <<users, nextID, pc, op, request, filter, findOptions, cursor,
                   response, result, calls, fault, written>>

\* the caller of a Search that succeeded keeps the request it made, the
\* store it was made against and the response it got
Remember ==
    /\ pc = "done"
    /\ op = "Search"
    /\ IsSet(result.response)
    /\ observed' = Some([request |-> request, store |-> users,
                         response |-> ValueOf(result.response)])
    /\ observed' # observed
    /\ UNCHANGED <<repositoryVars, rpc, paging, between, transport, searches>>

\* a caller starts to page forward through the users in userIDs, n at a time
PagingBegin(userIDs, n) ==
    /\ pc = "idle"
    /\ paging.state = "none"
    /\ paging' = [state |-> "paging", UserIDs |-> userIDs, First |-> n, pages |-> <<>>]
    /\ UNCHANGED <<repositoryVars, rpc, observed, between, transport, searches>>

\* the caller asks for the next page
PagingSearch ==
    /\ pc = "idle"
    /\ paging.state = "paging"
    /\ SearchStart(NextPageRequest(paging))

\* the caller takes the page of a Search that succeeded, and stops at a page
\* shorter than it asked for
PagingCollect ==
    /\ pc = "done"
    /\ op = "Search"
    /\ paging.state = "paging"
    /\ request = NextPageRequest(paging)
    /\ IsSet(result.response)
    /\ LET entries == ValueOf(result.response).Users
           page == [i \in 1..Len(entries) |-> entries[i].Cursor]
       IN  paging' = [paging EXCEPT
                         !.pages = Append(@, page),
                         !.state = IF Len(page) < paging.First THEN "ended" ELSE "paging"]
    /\ UNCHANGED <<repositoryVars, rpc, observed, between, transport, searches>>

\* the InsertOne of a CreateUser call of another client takes effect while a
\* Search is between createClientAndCollection and its return
OtherClientCreate(email) ==
    /\ op = "Search"
    /\ pc \in {"count", "find", "next"}
    /\ nextID < MinID + MaxUsers
    /\ users' = (nextID :> email) @@ users
    /\ written' = (nextID :> email) @@ written
    /\ nextID' = nextID + 1
    /\ between' = IF pc = "find" THEN between \cup {"CreateUser"} ELSE between
    /\ UNCHANGED <<pc, op, request, filter, findOptions, cursor, response, result,
                   calls, fault, ctx, rpc, historyVars, transport, searches>>

\* the DeleteOne of a DeleteUser call of another client takes effect while a
\* Search is between createClientAndCollection and its return
OtherClientDelete(objectID) ==
    /\ op = "Search"
    /\ pc \in {"count", "find", "next"}
    /\ objectID \in DOMAIN users
    /\ users' = [id \in DOMAIN users \ {objectID} |-> users[id]]
    /\ written' = [id \in DOMAIN written \ {objectID} |-> written[id]]
    /\ between' = IF pc = "find" THEN between \cup {"DeleteUser"} ELSE between
    /\ UNCHANGED <<nextID, pc, op, request, filter, findOptions, cursor, response,
                   result, calls, fault, ctx, rpc, historyVars, transport, searches>>

\* call c returns res: its local variables are gone
ConcurrentReturns(c, res, at) ==
    [searches EXCEPT !.pc[c] = "done",
                     !.result[c] = res,
                     !.failure[c].at = at,
                     !.locals[LocalsOf(c)] = NewLocals]

\* call c enters Search: response is initialised and the UserIDs are decoded
ConcurrentDecode(c, req) ==
    /\ pc = "idle"
    /\ searches.pc[c] = "idle"
    /\ UNCHANGED notSearchesVars
    /\ LET decoded == DecodeUserIDs(req.UserIDs)
           entered == [searches EXCEPT !.request[c] = req,
                                       !.locals[LocalsOf(c)] = NewLocals]
       IN  IF decoded.err
           THEN searches' = [entered EXCEPT
                                !.pc[c] = "done",
                                !.result[c] = Failure(UnknownError(
                                    "Failed to decode the userID", decoded.userID))]
           ELSE searches' = [entered EXCEPT
                                !.pc[c] = "connect",
                                !.locals[LocalsOf(c)].filter =
                                    IDFilter(req.UserIDs, decoded.ids)]

\* call c: createClientAndCollection
ConcurrentConnect(c) ==
    /\ searches.pc[c] = "connect"
    /\ UNCHANGED notSearchesVars
    /\ \/ searches' = [searches EXCEPT !.pc[c] = "count"]
       \/ \* mongo.Connect fails
          searches' = ConcurrentReturns(c, Failure(UnknownError(
                          "Could not connect to mongodb database.", <<>>)), "connect")

\* call c: CountDocuments, the zero-count return, the After and Before blocks
\* and the find options
ConcurrentCount(c) ==
    /\ searches.pc[c] = "count"
    /\ UNCHANGED notSearchesVars
    /\ \/ LET mine == searches.locals[LocalsOf(c)]
              total == CountDocuments(users, mine.filter)
              counted == [mine.response EXCEPT !.TotalCount = total]
              bounded == PaginationFilter(mine.filter, searches.request[c].Pagination)
          IN  IF NoUserMatched(total)
              THEN searches' = ConcurrentReturns(c, Success(counted), "none")
              ELSE IF bounded.err
              THEN searches' = ConcurrentReturns(c, Failure(bounded.error), "none")
              ELSE searches' = [searches EXCEPT
                                   !.pc[c] = "find",
                                   !.locals[LocalsOf(c)].response = counted,
                                   !.locals[LocalsOf(c)].filter = bounded.filter,
                                   !.locals[LocalsOf(c)].findOptions =
                                       [Limit |-> FindLimit(searches.request[c].Pagination),
                                        Sort |-> SortOptionPairs(
                                                     searches.request[c].SortingOptions)]]
       \/ \* CountDocuments fails
          searches' = ConcurrentReturns(c, Failure(UnknownError(
                          "Failed to retrieve the number of users that match the filter criteria",
                          <<>>)), "count")

\* call c: collection.Find
ConcurrentFind(c) ==
    /\ searches.pc[c] = "find"
    /\ UNCHANGED notSearchesVars
    /\ \/ LET mine == searches.locals[LocalsOf(c)]
          IN  searches' = [searches EXCEPT
                              !.pc[c] = "next",
                              !.locals[LocalsOf(c)].cursor =
                                  Find(users, mine.filter, mine.findOptions)]
       \/ \* Find fails
          searches' = ConcurrentReturns(c, Failure(UnknownError(
                          "Failed to call the Find function on the collection.", <<>>)),
                          "find")

\* call c: cursor.Next and one pass of the loop body
ConcurrentNext(c) ==
    /\ searches.pc[c] = "next"
    /\ UNCHANGED notSearchesVars
    /\ LET mine == searches.locals[LocalsOf(c)]
       IN  \/ \* Next delivers a document and both Decode calls succeed
              /\ mine.cursor # <<>>
              /\ searches' = [searches EXCEPT
                                  !.locals[LocalsOf(c)].users =
                                      Append(@, UserWithCursor(Head(mine.cursor))),
                                  !.locals[LocalsOf(c)].cursor = Tail(@)]
           \/ \* Next delivers a document and cursor.Decode(&user) fails
              /\ mine.cursor # <<>>
              /\ searches' = ConcurrentReturns(c, Failure(UnknownError(
                                  "Failed to decode the user", <<>>)), "decode")
           \/ \* Next delivers a document and cursor.Decode(&userBson) fails
              /\ mine.cursor # <<>>
              /\ searches' = ConcurrentReturns(c, Failure(UnknownError(
                                  "Could not load the data.", <<>>)), "load")
           \/ \* Next returns false because the cursor is exhausted
              /\ mine.cursor = <<>>
              /\ searches' = [searches EXCEPT !.pc[c] = "flags"]
           \/ \* Next returns false because the store failed; cursor.Err() is
              \* not read
              /\ searches' = [searches EXCEPT
                                  !.pc[c] = "flags",
                                  !.failure[c] = [at |-> "next",
                                                  delivered |-> Len(mine.users)]]

\* call c: response.Users, the page flags and return response, nil
ConcurrentFlags(c) ==
    /\ searches.pc[c] = "flags"
    /\ UNCHANGED notSearchesVars
    /\ LET mine == searches.locals[LocalsOf(c)]
           flags == PageFlags(searches.request[c].Pagination, mine.response.TotalCount)
           flagged == [mine.response EXCEPT !.Users = mine.users,
                                            !.HasNextPage = flags.HasNextPage,
                                            !.HasPreviousPage = flags.HasPreviousPage]
       IN  searches' = ConcurrentReturns(c, Success(flagged), searches.failure[c].at)

\* the caller of call c has the result
ConcurrentReturn(c) ==
    /\ searches.pc[c] = "done"
    /\ UNCHANGED notSearchesVars
    /\ searches' = [searches EXCEPT !.pc[c] = "idle",
                                    !.request[c] = NoRequest,
                                    !.result[c] = NoResult,
                                    !.failure[c] = NoFailure]

\* Start up to net.Listen: the host, the port or the listener fails and Start
\* returns the error, or the listener is bound and the server registered
StartListen ==
    /\ transport.pc = "new"
    /\ UNCHANGED notTransportVars
    /\ \/ \E failure \in StartFailures :
              transport' = [transport EXCEPT !.pc = "returned", !.err = Some(failure)]
       \/ transport' = [transport EXCEPT !.pc = "listening"]

\* Live = true
StartSetLive ==
    /\ transport.pc = "listening"
    /\ UNCHANGED notTransportVars
    /\ transport' = [transport EXCEPT !.pc = "live", !.Live = TRUE]

\* Ready = true, and gRPCServer.Serve is entered
StartSetReady ==
    /\ transport.pc = "live"
    /\ UNCHANGED notTransportVars
    /\ transport' = [transport EXCEPT !.pc = "serving", !.Ready = TRUE]

\* gRPCServer.Serve returns its error
ServeReturns ==
    /\ transport.pc = "serving"
    /\ UNCHANGED notTransportVars
    /\ transport' = [transport EXCEPT !.pc = "served", !.err = Some("Serve")]

\* Live = false
StartResetLive ==
    /\ transport.pc = "served"
    /\ UNCHANGED notTransportVars
    /\ transport' = [transport EXCEPT !.pc = "resetting", !.Live = FALSE]

\* Ready = false, and Start returns the error of Serve
StartResetReady ==
    /\ transport.pc = "resetting"
    /\ UNCHANGED notTransportVars
    /\ transport' = [transport EXCEPT !.pc = "returned", !.Ready = FALSE]

\* Stop, called from the goroutine that waits for the interrupt: return nil
Stop ==
    /\ ~transport.stopped
    /\ UNCHANGED notTransportVars
    /\ transport' = [transport EXCEPT !.stopped = TRUE]

\* an endpoint is called: the guards answer, or the business service is
\* called
EndpointCall(name, c, req) ==
    /\ rpc.pc = "idle"
    /\ UNCHANGED notRpcVars
    /\ LET guarded == EndpointGuard(name, c, req)
       IN  rpc' = [pc |-> IF IsSet(guarded) THEN "encode" ELSE "business",
                   name |-> name, ctx |-> c, request |-> req,
                   businessCalls |-> IF IsSet(guarded) THEN 0 ELSE 1,
                   returned |-> NoResult,
                   response |-> guarded, goErr |-> Nil, wire |-> Nil]

\* the business service of the tests: its repository is a mock that returns
\* what the test tells it to and keeps no store
MockBusinessCall ==
    /\ rpc.pc = "business"
    /\ UNCHANGED notRpcVars
    /\ \E returned \in RepositoryReturns(rpc.name, ValueOf(rpc.request)) :
          rpc' = [rpc EXCEPT
                     !.pc = "encode",
                     !.returned = returned,
                     !.response = Some(BusinessService(rpc.name, ValueOf(rpc.request),
                                                       returned))]

\* the method of the repository a method of the business service calls, with
\* the request it builds for it
RepositoryCall(name, req) ==
    \/ name = "CreateUser" /\ CreateUser(req.User.Email)
    \/ name = "ReadUser" /\ ReadUser(req.UserID)
    \/ name = "ReadUserByEmail" /\ ReadUserByEmail(req.Email)
    \/ name = "UpdateUser" /\ UpdateUser(req.UserID, req.User.Email)
    \/ name = "DeleteUser" /\ DeleteUser(req.UserID)
    \/ name = "Search" /\ SearchStart(req)

\* the business service calls the mongodb repository StartService gave it
BusinessCall ==
    /\ rpc.pc = "business"
    /\ pc = "idle"
    /\ RepositoryCall(rpc.name, ValueOf(rpc.request))

\* the repository has returned: the business service maps the error or copies
\* the fields of the response
BusinessReturn ==
    /\ rpc.pc = "business"
    /\ CallOver
    /\ UNCHANGED <<historyVars, between, transport, searches>>
    /\ rpc' = [rpc EXCEPT
                  !.pc = "encode",
                  !.returned = result,
                  !.response = Some(BusinessService(rpc.name, ValueOf(rpc.request),
                                                    result))]

\* the transport encodes the response of the endpoint
Encode ==
    /\ rpc.pc = "encode"
    /\ UNCHANGED notRpcVars
    /\ LET resp == ValueOf(rpc.response)
       IN  IF IsSet(resp.Err) /\ mapError(ValueOf(resp.Err)) = mapError(PlainError)
           THEN rpc' = [rpc EXCEPT !.pc = "panic"]
           ELSE rpc' = [rpc EXCEPT !.pc = "done",
                                   !.wire = Some(EncodeResponse(rpc.name, resp))]

\* the caller has the answer, or the panic took the call down
RpcReturn ==
    /\ rpc.pc \in {"done", "panic"}
    /\ UNCHANGED notRpcVars
    /\ rpc' = NoRpc

\* a call arrives; CreateUser calls arrive while the store has room
Endpoint ==
    /\ rpc.pc = "idle"
    /\ \E name \in EndpointNames : \E c \in Contexts :
           \E req \in Optional(ServiceRequests(name)) :
               /\ name = "CreateUser" => nextID < MinID + MaxUsers
               /\ EndpointCall(name, c, req)

\* the service as StartService wires it: endpoints, business service and
\* mongodb repository
NextService ==
    \/ Endpoint
    \/ BusinessCall
    \/ SearchCount
    \/ SearchFind
    \/ SearchNext
    \/ BusinessReturn
    \/ Encode
    \/ RpcReturn

SpecService == Init /\ [][NextService]_vars

\* a call of one of the operations the tests of the business service
\* exercise arrives
MockEndpoint ==
    /\ rpc.pc = "idle"
    /\ \E name \in UserOperations : \E c \in Contexts :
           \E req \in Optional(ServiceRequests(name)) :
               EndpointCall(name, c, req)

\* the business service as its tests run it, on a mock of the repository
NextMock ==
    \/ MockEndpoint
    \/ MockBusinessCall
    \/ Encode
    \/ RpcReturn

SpecMock == Init /\ [][NextMock]_vars

\* Serve has been called and has not returned
Serving == transport.pc = "serving"

\* the server accepts a call while Serve runs
ServedEndpoint == Serving /\ Endpoint

\* the two goroutines of StartService that start and stop the gRPC transport,
\* and the calls the server handles: a call in flight goes on on its own
\* goroutine after Serve has returned
NextTransport ==
    \/ StartListen
    \/ StartSetLive
    \/ StartSetReady
    \/ ServeReturns
    \/ StartResetLive
    \/ StartResetReady
    \/ Stop
    \/ ServedEndpoint
    \/ BusinessCall
    \/ SearchCount
    \/ SearchFind
    \/ SearchNext
    \/ BusinessReturn
    \/ Encode
    \/ RpcReturn

SpecTransport == Init /\ [][NextTransport]_vars

\* a caller invokes a handler when no call is in flight
Search == pc = "idle" /\ \E req \in SearchRequests : SearchStart(req)
Create == pc = "idle" /\ \E email \in Emails : CreateUser(email)
Delete == pc = "idle" /\ \E userID \in UserIDStrings : DeleteUser(userID)
Read == pc = "idle" /\ \E userID \in UserIDStrings : ReadUser(userID)
Update == pc = "idle" /\ \E userID \in UserIDStrings : \E email \in Emails :
              UpdateUser(userID, email)

Next ==
    \/ Search
    \/ SearchCount
    \/ SearchFind
    \/ SearchNext
    \/ Return
    \/ Create
    \/ Delete
    \/ Read
    \/ Update

Spec == Init /\ [][Next]_vars

\* the handlers called with sorting options, on users of different emails
SearchSorted == pc = "idle" /\ \E req \in SortRequests : SearchStart(req)
CreateSorted == pc = "idle" /\ \E email \in SortEmails : CreateUser(email)

NextSort ==
    \/ CreateSorted
    \/ SearchSorted
    \/ SearchCount
    \/ SearchFind
    \/ SearchNext
    \/ Return

SpecSort == Init /\ [][NextSort]_vars

\* Search called with After and sorting options, on users of different emails
SearchSortedAfter == pc = "idle" /\ \E req \in SortAfterRequests : SearchStart(req)

NextSortAfter ==
    \/ CreateSorted
    \/ SearchSortedAfter
    \/ SearchCount
    \/ SearchFind
    \/ SearchNext
    \/ Return

SpecSortAfter == Init /\ [][NextSortAfter]_vars

\* Search called with a context the caller may cancel while it runs
SearchPlain == pc = "idle" /\ \E req \in PlainRequests : SearchStart(req)

NextCancel ==
    \/ Create
    \/ SearchPlain
    \/ Cancel
    \/ SearchCount
    \/ SearchFind
    \/ SearchNext
    \/ Return

SpecCancel == Init /\ [][NextCancel]_vars

\* searches that differ in filter, sorting options and store; once a caller
\* has remembered one, the searches that follow repeat its pagination
SearchFlagged ==
    /\ pc = "idle"
    /\ \E req \in FlagRequests :
          /\ IsSet(observed) => req.Pagination = ValueOf(observed).request.Pagination
          /\ SearchStart(req)

NextFlags ==
    \/ SearchFlagged
    \/ SearchCount
    \/ SearchFind
    \/ SearchNext
    \/ Return
    \/ Create
    \/ Remember

SpecFlags == Init /\ [][NextFlags]_vars

\* a Search of one client while other clients create and delete users
OtherCreate == \E email \in Emails : OtherClientCreate(email)
OtherDelete == \E objectID \in ObjectIDs : OtherClientDelete(objectID)

NextConcurrent ==
    \/ SearchPlain
    \/ SearchCount
    \/ SearchFind
    \/ SearchNext
    \/ Return
    \/ OtherCreate
    \/ OtherDelete

SpecConcurrent == Init /\ [][NextConcurrent]_vars

\* a caller that pages forward through a store that no longer changes
CreateBeforePaging == paging.state = "none" /\ Create
DeleteBeforePaging == paging.state = "none" /\ Delete
Paging ==
    \E userIDs \in PagingUserIDs : \E n \in PageSizes : PagingBegin(userIDs, n)

NextPaging ==
    \/ CreateBeforePaging
    \/ DeleteBeforePaging
    \/ Paging
    \/ PagingSearch
    \/ SearchCount
    \/ SearchFind
    \/ SearchNext
    \/ Return
    \/ PagingCollect

SpecPaging == Init /\ [][NextPaging]_vars

\* Search calls that run concurrently against a store that was filled before
\* and is not modified while one of them runs
CreateBeforeSearches == (\A c \in Calls : searches.pc[c] = "idle") /\ Create
ReturnCreated == op = "CreateUser" /\ Return
Decodes == \E c \in Calls : \E req \in ConcurrentRequests : ConcurrentDecode(c, req)
Connects == \E c \in Calls : ConcurrentConnect(c)
Counts == \E c \in Calls : ConcurrentCount(c)
Finds == \E c \in Calls : ConcurrentFind(c)
Iterates == \E c \in Calls : ConcurrentNext(c)
ComputesFlags == \E c \in Calls : ConcurrentFlags(c)
Returns == \E c \in Calls : ConcurrentReturn(c)

NextInterleaved ==
    \/ CreateBeforeSearches
    \/ ReturnCreated
    \/ Decodes
    \/ Connects
    \/ Counts
    \/ Finds
    \/ Iterates
    \/ ComputesFlags
    \/ Returns

SpecInterleaved == Init /\ [][NextInterleaved]_vars

\* the single-user handlers, on users of different emails
UpdateSorted == pc = "idle" /\ \E userID \in UserIDStrings : \E email \in SortEmails :
                    UpdateUser(userID, email)

NextCrud ==
    \/ CreateSorted
    \/ Read
    \/ UpdateSorted
    \/ Delete
    \/ Return

SpecCrud == Init /\ [][NextCrud]_vars

\* requests of the single-user handlers
UserRequests ==
    [UserID : UserIDStrings]
        \cup [UserID : UserIDStrings, User : [Email : Emails \cup SortEmails]]
        \cup [Email : ServiceEmails]

\* well-formedness of the state
TypeOK ==
    /\ DOMAIN users \subseteq ObjectIDs
    /\ nextID \in MinID .. (MinID + MaxUsers)
    /\ pc \in {"idle", "count", "find", "next", "done"}
    /\ request \in SearchRequests \cup SortRequests \cup SortAfterRequests
                     \cup FlagRequests \cup PagingRequests
                     \cup UserRequests \cup {NoRequest}
    /\ ctx \in {"live", "cancelled"}
    /\ DOMAIN written \subseteq ObjectIDs

----------------------------------------------------------------------------
(* Vocabulary of the properties *)

SearchDone == pc = "done" /\ op = "Search"

\* Search returned a response and a nil error
SearchOK == SearchDone /\ IsSet(result.response) /\ ~IsSet(result.err)

\* Search returned an error and no response
SearchFailed == SearchDone /\ IsSet(result.err) /\ ~IsSet(result.response)

Returned == ValueOf(result.response)
ReturnedErr == ValueOf(result.err)

Pagination == request.Pagination

\* a string is a valid identifier encoding: 24 characters, all hex digits
ValidEncoding(str) ==
    /\ Len(str) = ObjectIDHexLen
    /\ \A i \in 1..Len(str) : str[i] \in DOMAIN HexCharValue

\* two valid encodings denote the same identifier: the same digits, in
\* either case
SameID(a, b) ==
    \A k \in 1..ObjectIDHexLen : HexCharValue[a[k]] = HexCharValue[b[k]]

\* the identifier of encoding a is smaller than that of encoding b: the
\* first digit that differs is smaller
LessID(a, b) ==
    \E k \in 1..ObjectIDHexLen :
        /\ HexCharValue[a[k]] < HexCharValue[b[k]]
        /\ \A j \in 1..(k - 1) : HexCharValue[a[j]] = HexCharValue[b[j]]

\* the stored users whose ID is in UserIDs, all of them when UserIDs is empty
FilteredUsers ==
    IF request.UserIDs = <<>> THEN DOMAIN users
    ELSE {id \in DOMAIN users :
             \E i \in 1..Len(request.UserIDs) : SameID(Hex(id), request.UserIDs[i])}

InvalidUserIDs ==
    {i \in 1..Len(request.UserIDs) : ~ValidEncoding(request.UserIDs[i])}

LessThanTotal(limit) == IsSet(limit) /\ ValueOf(limit) < Returned.TotalCount

----------------------------------------------------------------------------
(* Properties *)

\* C1: on every successful Search, TotalCount is the number of stored users
\* whose ID is in UserIDs (all stored users when UserIDs is empty), whatever
\* After, Before, First and Last are.
C1_TotalCountIsFilteredCount ==
    SearchOK => Returned.TotalCount = Cardinality(FilteredUsers)

\* C1 witness: a successful Search with a filter, a cursor and a limit whose
\* TotalCount is smaller than the store and larger than the page
C1_Witness ==
    /\ SearchOK
    /\ Len(request.UserIDs) = 2
    /\ IsSet(Pagination.After) /\ IsSet(Pagination.First)
    /\ Returned.TotalCount = 2
    /\ Cardinality(DOMAIN users) = 3
    /\ Len(Returned.Users) = 1

\* C2 (as claimed): when After and Before are both present and Search
\* succeeds, every returned entry has an ID strictly between After and Before,
\* with or without UserIDs.
C2_EntriesBetweenCursors ==
    (SearchOK /\ IsSet(Pagination.After) /\ IsSet(Pagination.Before)) =>
        \A i \in 1..Len(Returned.Users) :
            /\ LessID(ValueOf(Pagination.After), Returned.Users[i].UserID)
            /\ LessID(Returned.Users[i].UserID, ValueOf(Pagination.Before))

\* C3 (as claimed): a Search whose After or Before is not a valid identifier
\* encoding returns an error and no response, in every store state.
C3_MalformedCursorFails ==
    (/\ SearchDone
     /\ \/ IsSet(Pagination.After) /\ ~ValidEncoding(ValueOf(Pagination.After))
        \/ IsSet(Pagination.Before) /\ ~ValidEncoding(ValueOf(Pagination.Before)))
    => SearchFailed

\* C4 (as claimed): when the fetch fails (Find, the iteration of the cursor or
\* the decoding of a document), Search returns an error and no response, and
\* a successful Search never carries a strict prefix of the page it fetched.
C4_NoPartialPage ==
    /\ (SearchDone /\ fault \in {"find", "next", "decode", "load"}) => SearchFailed
    /\ (SearchOK /\ calls.find = 1) => cursor = <<>>

\* C5 (as claimed): the limit handed to the fetch is First when First is
\* present, otherwise Last when Last is present, otherwise none.
C5_LimitIsFirstElseLast ==
    (op = "Search" /\ calls.find = 1) =>
        findOptions.Limit = (IF IsSet(Pagination.First) THEN Pagination.First
                             ELSE IF IsSet(Pagination.Last) THEN Pagination.Last
                             ELSE Nil)

\* C5 (amended): the limit handed to the fetch is Last when Last is present,
\* otherwise First when First is present, otherwise none; a complete page
\* fetched with a limit greater than 0 has at most that many entries.
C5_LimitIsLastElseFirst ==
    /\ (op = "Search" /\ calls.find = 1) =>
          findOptions.Limit = (IF IsSet(Pagination.Last) THEN Pagination.Last
                               ELSE IF IsSet(Pagination.First) THEN Pagination.First
                               ELSE Nil)
    /\ (SearchOK /\ IsSet(Pagination.Last) /\ ValueOf(Pagination.Last) > 0) =>
          Len(Returned.Users) <= ValueOf(Pagination.Last)

\* C5 witness: a fetch was issued with First and Last both present and
\* different, and the page is cut at Last
C5_Witness ==
    /\ SearchOK /\ fault = "none" /\ calls.find = 1
    /\ IsSet(Pagination.First) /\ IsSet(Pagination.Last)
    /\ ValueOf(Pagination.First) = 0 /\ ValueOf(Pagination.Last) = 1
    /\ Returned.TotalCount = 3
    /\ Len(Returned.Users) = 1

\* C6: the fetch is issued at most once and only after the count returned a
\* total greater than 0; when the count returns 0, Search succeeds with
\* TotalCount 0, no entries and both flags false, without a fetch.
C6_FetchOnlyAfterPositiveCount ==
    op = "Search" =>
        /\ calls.find <= 1
        /\ calls.find = 1 => (calls.count = 1 /\ response.TotalCount > 0)
        /\ pc \in {"find", "next"} => (calls.count = 1 /\ response.TotalCount > 0)
        /\ (pc = "done" /\ calls.count = 1 /\ fault # "count" /\ response.TotalCount = 0) =>
              /\ SearchOK
              /\ Returned.TotalCount = 0
              /\ Len(Returned.Users) = 0
              /\ ~Returned.HasNextPage /\ ~Returned.HasPreviousPage
              /\ calls.find = 0

\* C6 witness: a Search that returned after a count of 0 on a store that is
\* not empty, with cursors and limits in the request
C6_Witness ==
    /\ SearchOK
    /\ calls.count = 1 /\ calls.find = 0
    /\ Returned.TotalCount = 0
    /\ DOMAIN users # {}
    /\ IsSet(Pagination.After) /\ IsSet(Pagination.First)

\* C7: when an element of UserIDs is not a valid identifier encoding, Search
\* fails with an error that quotes the first such element, and it performs no
\* store operation: no connect, no count, no fetch.
C7_InvalidUserIDFailsBeforeStore ==
    (SearchDone /\ InvalidUserIDs # {}) =>
        /\ SearchFailed
        /\ ReturnedErr.kind = "UnknownError"
        /\ ReturnedErr.message = "Failed to decode the userID"
        /\ \E i \in InvalidUserIDs :
              /\ \A j \in InvalidUserIDs : i <= j
              /\ ReturnedErr.value = request.UserIDs[i]
        /\ calls = NoCalls

\* C7 witness: a Search whose UserIDs hold a valid element followed by an
\* invalid one has returned, on a store that is not empty
C7_Witness ==
    /\ SearchDone
    /\ Len(request.UserIDs) = 2
    /\ InvalidUserIDs = {2}
    /\ DOMAIN users # {}
    /\ SearchFailed

\* C8 (as claimed): when After and Before are both present and at least one
\* user matches UserIDs, HasNextPage and HasPreviousPage are both true.
C8_BothCursorsBothFlags ==
    (SearchOK /\ IsSet(Pagination.After) /\ IsSet(Pagination.Before)
        /\ Returned.TotalCount > 0) =>
        (Returned.HasNextPage /\ Returned.HasPreviousPage)

\* C8 (amended): when After and Before are both present and at least one user
\* matches UserIDs, HasNextPage and HasPreviousPage are equal, and they are
\* true exactly when First is present and less than TotalCount or Last is
\* present and less than TotalCount.
C8_BothCursorsFlagsFollowLimits ==
    (SearchOK /\ IsSet(Pagination.After) /\ IsSet(Pagination.Before)
        /\ Returned.TotalCount > 0) =>
        /\ Returned.HasNextPage = Returned.HasPreviousPage
        /\ Returned.HasNextPage =
              (LessThanTotal(Pagination.First) \/ LessThanTotal(Pagination.Last))

\* C8 witness: both cursors, a match, no limit: both flags are false
C8_Witness ==
    /\ SearchOK
    /\ IsSet(Pagination.After) /\ IsSet(Pagination.Before)
    /\ ~IsSet(Pagination.First) /\ ~IsSet(Pagination.Last)
    /\ Returned.TotalCount > 0
    /\ ~Returned.HasNextPage /\ ~Returned.HasPreviousPage

\* C9 (as claimed): when After is absent and Before is present, HasNextPage
\* is false, and HasPreviousPage is true exactly when Last is present and
\* less than TotalCount.
C9_BeforeOnlyNoNextPage ==
    (SearchOK /\ ~IsSet(Pagination.After) /\ IsSet(Pagination.Before)) =>
        /\ ~Returned.HasNextPage
        /\ Returned.HasPreviousPage = LessThanTotal(Pagination.Last)

\* C9 (amended): when After is absent and Before is present, HasPreviousPage
\* is true exactly when Last is present and less than TotalCount, and
\* HasNextPage is true exactly when Last is present and less than TotalCount
\* or First is present and less than TotalCount.
C9_BeforeOnlyFlags ==
    (SearchOK /\ ~IsSet(Pagination.After) /\ IsSet(Pagination.Before)) =>
        /\ Returned.HasPreviousPage = LessThanTotal(Pagination.Last)
        /\ Returned.HasNextPage =
              (LessThanTotal(Pagination.Last) \/ LessThanTotal(Pagination.First))

\* C9 witness: Before only, with a Last that truncates: both flags are true
C9_Witness ==
    /\ SearchOK
    /\ ~IsSet(Pagination.After) /\ IsSet(Pagination.Before)
    /\ ~IsSet(Pagination.First)
    /\ LessThanTotal(Pagination.Last)
    /\ Returned.HasNextPage /\ Returned.HasPreviousPage

\* C10 (as claimed): when After is present, Before is absent and First is
\* present, HasNextPage is true exactly when First is less than TotalCount,
\* and HasPreviousPage is false.
C10_AfterFirstNoPreviousPage ==
    (SearchOK /\ IsSet(Pagination.After) /\ ~IsSet(Pagination.Before)
        /\ IsSet(Pagination.First)) =>
        /\ Returned.HasNextPage = LessThanTotal(Pagination.First)
        /\ ~Returned.HasPreviousPage

\* C10 (amended): when After is present, Before is absent and First is
\* present, HasNextPage is true exactly when First is less than TotalCount,
\* and HasPreviousPage is true exactly when First is less than TotalCount or
\* Last is present and less than TotalCount.
C10_AfterFirstFlags ==
    (SearchOK /\ IsSet(Pagination.After) /\ ~IsSet(Pagination.Before)
        /\ IsSet(Pagination.First)) =>
        /\ Returned.HasNextPage = LessThanTotal(Pagination.First)
        /\ Returned.HasPreviousPage =
              (LessThanTotal(Pagination.First) \/ LessThanTotal(Pagination.Last))

\* C10 witness: After and a First that truncates, no Last: both flags are true
C10_Witness ==
    /\ SearchOK
    /\ IsSet(Pagination.After) /\ ~IsSet(Pagination.Before)
    /\ ~IsSet(Pagination.Last)
    /\ LessThanTotal(Pagination.First)
    /\ Returned.HasNextPage /\ Returned.HasPreviousPage

\* C11: when After is present and First is present with First < TotalCount,
\* a successful Search has HasNextPage = true and HasPreviousPage = true.
C11_AfterFirstTruncatedBothFlags ==
    (SearchOK /\ IsSet(Pagination.After) /\ LessThanTotal(Pagination.First)) =>
        (Returned.HasNextPage /\ Returned.HasPreviousPage)

\* C11 witness: every stored user matches, After is the cursor of the first
\* of them and First is smaller than the total; the page is the user after
\* the cursor
C11_Witness ==
    /\ SearchOK /\ fault = "none"
    /\ Pagination.After = Some(Hex(MinID)) /\ ~IsSet(Pagination.Before)
    /\ Pagination.First = Some(1) /\ ~IsSet(Pagination.Last)
    /\ Returned.TotalCount = MaxUsers
    /\ Len(Returned.Users) = 1
    /\ Returned.Users[1].UserID = Hex(MinID + 1)
    /\ Returned.HasNextPage /\ Returned.HasPreviousPage

\* C12: when neither After nor Before is present, with only First present
\* HasNextPage = (First < TotalCount) and HasPreviousPage = false, and with
\* only Last present HasNextPage = false and HasPreviousPage =
\* (Last < TotalCount).
C12_NoCursorFlags ==
    (SearchOK /\ ~IsSet(Pagination.After) /\ ~IsSet(Pagination.Before)) =>
        /\ (IsSet(Pagination.First) /\ ~IsSet(Pagination.Last)) =>
              /\ Returned.HasNextPage = LessThanTotal(Pagination.First)
              /\ ~Returned.HasPreviousPage
        /\ (IsSet(Pagination.Last) /\ ~IsSet(Pagination.First)) =>
              /\ ~Returned.HasNextPage
              /\ Returned.HasPreviousPage = LessThanTotal(Pagination.Last)

\* C12 witness: no cursor, only First, smaller than the total: the page has
\* First entries, HasNextPage is true and HasPreviousPage is false
C12_Witness ==
    /\ SearchOK /\ fault = "none"
    /\ ~IsSet(Pagination.After) /\ ~IsSet(Pagination.Before)
    /\ Pagination.First = Some(1) /\ ~IsSet(Pagination.Last)
    /\ Returned.TotalCount = 2
    /\ Len(Returned.Users) = 1
    /\ Returned.HasNextPage /\ ~Returned.HasPreviousPage

\* the request has exactly these pagination fields present
PaginationShape(after, before, first, last) ==
    /\ IsSet(Pagination.After) = after
    /\ IsSet(Pagination.Before) = before
    /\ IsSet(Pagination.First) = first
    /\ IsSet(Pagination.Last) = last

\* C13 (as claimed): with no cursor and no limit, with After and Last only,
\* and with Before and First only, HasNextPage and HasPreviousPage are both
\* false for every TotalCount.
C13_MixedShapesBothFalse ==
    (/\ SearchOK
     /\ \/ PaginationShape(FALSE, FALSE, FALSE, FALSE)
        \/ PaginationShape(TRUE, FALSE, FALSE, TRUE)
        \/ PaginationShape(FALSE, TRUE, TRUE, FALSE))
    => (~Returned.HasNextPage /\ ~Returned.HasPreviousPage)

\* C13 (amended): with no cursor and no limit both flags are false; with
\* After and Last only HasNextPage is false and HasPreviousPage is true
\* exactly when Last < TotalCount; with Before and First only HasNextPage is
\* true exactly when First < TotalCount and HasPreviousPage is false.
C13_MixedShapesFlags ==
    SearchOK =>
        /\ PaginationShape(FALSE, FALSE, FALSE, FALSE) =>
              (~Returned.HasNextPage /\ ~Returned.HasPreviousPage)
        /\ PaginationShape(TRUE, FALSE, FALSE, TRUE) =>
              /\ ~Returned.HasNextPage
              /\ Returned.HasPreviousPage = LessThanTotal(Pagination.Last)
        /\ PaginationShape(FALSE, TRUE, TRUE, FALSE) =>
              /\ Returned.HasNextPage = LessThanTotal(Pagination.First)
              /\ ~Returned.HasPreviousPage

\* C13 witness: After and Last only, with Last smaller than the total:
\* HasPreviousPage is true
C13_Witness ==
    /\ SearchOK
    /\ PaginationShape(TRUE, FALSE, FALSE, TRUE)
    /\ LessThanTotal(Pagination.Last)
    /\ ~Returned.HasNextPage /\ Returned.HasPreviousPage

\* the stored users in UserIDs whose ID is beyond the cursor of the request
UsersBeyondCursor ==
    {id \in FilteredUsers :
        /\ IsSet(Pagination.After) => LessID(ValueOf(Pagination.After), Hex(id))
        /\ IsSet(Pagination.Before) => LessID(Hex(id), ValueOf(Pagination.Before))}

\* the limit of a request that has at most one of First and Last
RequestedLimit ==
    IF IsSet(Pagination.First) THEN Pagination.First ELSE Pagination.Last

Smaller(a, b) == IF a < b THEN a ELSE b

\* C14 (as claimed): with empty SortingOptions and at most one of After and
\* Before, the entries of a successful Search are the first L elements, in
\* ascending ID order, of the stored users that are in UserIDs and beyond the
\* cursor, L being First or Last, for every value >= 0 (all of them without
\* a limit).  Stated for the calls in which no store operation failed.
C14_EntriesAreFirstL ==
    (/\ SearchOK /\ fault = "none"
     /\ request.SortingOptions = <<>>
     /\ ~(IsSet(Pagination.After) /\ IsSet(Pagination.Before))
     /\ ~(IsSet(Pagination.First) /\ IsSet(Pagination.Last)))
    => LET entries == Returned.Users
           expected == UsersBeyondCursor
       IN  /\ Len(entries) = IF IsSet(RequestedLimit)
                             THEN Smaller(ValueOf(RequestedLimit), Cardinality(expected))
                             ELSE Cardinality(expected)
           /\ \A i \in 1..Len(entries) :
                 \E id \in expected : entries[i].UserID = Hex(id)
           /\ \A i \in 1..Len(entries) : \A j \in (i + 1)..Len(entries) :
                 LessID(entries[i].UserID, entries[j].UserID)
           /\ \A id \in expected :
                 (\A i \in 1..Len(entries) : entries[i].UserID # Hex(id)) =>
                     \A i \in 1..Len(entries) : LessID(entries[i].UserID, Hex(id))

\* the place of an email address in the string order
EmailRank(email) == CHOOSE i \in 1..Len(EmailOrder) : EmailOrder[i] = email

\* entry a has a smaller value of field name than entry b
LessOn(name, a, b) ==
    IF name = "_id" THEN LessID(a.UserID, b.UserID)
    ELSE EmailRank(a.User.Email) < EmailRank(b.User.Email)

\* entries a and b have the same value of field name
EqualOn(name, a, b) ==
    IF name = "_id" THEN SameID(a.UserID, b.UserID)
    ELSE a.User.Email = b.User.Email

\* entry a is strictly before entry b under one sorting option
StrictlyBefore(option, a, b) ==
    IF option.Direction = "Descending" THEN LessOn(option.Name, b, a)
    ELSE LessOn(option.Name, a, b)

\* the stored users have pairwise different values of field name
DistinctOn(name) ==
    name = "email" =>
        \A x \in DOMAIN users : \A y \in DOMAIN users : x # y => users[x] # users[y]

\* a successful Search of every stored user in which no store operation
\* failed and the limit, if any, does not truncate
SortedSearchOK ==
    /\ SearchOK /\ fault = "none"
    /\ request.UserIDs = <<>>
    /\ PaginationShape(FALSE, FALSE, FALSE, FALSE)
       \/ (PaginationShape(FALSE, FALSE, TRUE, FALSE)
           /\ ValueOf(Pagination.First) >= Cardinality(DOMAIN users))

\* C15: when the stored users have pairwise different values of field X and
\* the limit does not truncate, SortingOptions = [(X, Descending)] returns
\* every stored user in strictly descending order of X and [(X, Ascending)]
\* returns every stored user in strictly ascending order of X, that is, the
\* exact reverse; with two keys the earlier key decides the order of two
\* entries and the later key only orders entries equal on the earlier one.
C15_SortDirectionAndPrecedence ==
    LET entries == Returned.Users
        options == request.SortingOptions
    IN  SortedSearchOK =>
          /\ Len(options) > 0 =>
                /\ Len(entries) = Cardinality(DOMAIN users)
                /\ \A id \in DOMAIN users :
                      \E i \in 1..Len(entries) : entries[i].UserID = Hex(id)
          /\ (Len(options) = 1 /\ DistinctOn(options[1].Name)) =>
                \A i \in 1..Len(entries) : \A j \in (i + 1)..Len(entries) :
                    StrictlyBefore(options[1], entries[i], entries[j])
          /\ Len(options) = 2 =>
                \A i \in 1..Len(entries) : \A j \in (i + 1)..Len(entries) :
                    \/ StrictlyBefore(options[1], entries[i], entries[j])
                    \/ /\ EqualOn(options[1].Name, entries[i], entries[j])
                       /\ StrictlyBefore(options[2], entries[i], entries[j])

\* C15 witness: three users, the two emails not in the order of the IDs,
\* sorted on email descending then _id descending: the entries are not in
\* ascending and not in descending ID order
C15_Witness ==
    /\ SortedSearchOK
    /\ Len(request.SortingOptions) = 2
    /\ request.SortingOptions[1] = [Name |-> "email", Direction |-> "Descending"]
    /\ request.SortingOptions[2] = [Name |-> "_id", Direction |-> "Descending"]
    /\ Len(Returned.Users) = 3
    /\ LessID(Returned.Users[1].UserID, Returned.Users[2].UserID)
    /\ LessID(Returned.Users[3].UserID, Returned.Users[2].UserID)

\* the context was cancelled after CountDocuments succeeded and before
\* Find is called
CancelledBeforeFetch == op = "Search" /\ pc = "find" /\ ctx = "cancelled"

\* C16 (as claimed): when the context is cancelled after the count succeeded
\* and before the fetch is invoked, Search returns without invoking the
\* fetch, and returns a cancellation error and no response.
C16_CancelledNeverFetches ==
    [][CancelledBeforeFetch =>
          /\ pc' = "done"
          /\ calls'.find = calls.find
          /\ ~IsSet(result'.response)
          /\ IsSet(result'.err)
          /\ ValueOf(result'.err).kind = "CancellationError"]_vars

\* the kinds of the errors Search builds when an entry of UserIDs, the After
\* cursor or the Before cursor does not decode
DecodeFailureKinds ==
    LET none == NoRequest.Pagination
    IN  {UnknownError("Failed to decode the userID", NonHexString).kind,
         PaginationFilter(EmptyFilter, [none EXCEPT !.After = Some(ShortString)]).error.kind,
         PaginationFilter(EmptyFilter, [none EXCEPT !.Before = Some(ShortString)]).error.kind}

\* C17 (as claimed): the error Search returns when the store's count or
\* fetch fails is of another kind than the errors it returns when an ID
\* filter entry or a cursor does not decode.
C17_DecodeAndStoreKindsDiffer ==
    (SearchFailed /\ fault \in {"count", "find"})
    => ReturnedErr.kind \notin DecodeFailureKinds

\* the handler h returned a response and a nil error
HandlerOK(h) == pc = "done" /\ op = h /\ IsSet(result.response) /\ ~IsSet(result.err)

\* the handler h returned an error and no response
HandlerFailed(h) == pc = "done" /\ op = h /\ IsSet(result.err) /\ ~IsSet(result.response)

\* C18: every entry of a successful Search response has Cursor equal to its
\* UserID; a successful CreateUser response has Cursor equal to the new
\* UserID, the encoding of the inserted document's ID; a successful
\* UpdateUser response has Cursor equal to the UserID of the request, as the
\* caller wrote it.
C18_CursorIsUserID ==
    /\ SearchOK =>
          \A i \in 1..Len(Returned.Users) :
              Returned.Users[i].Cursor = Returned.Users[i].UserID
    /\ HandlerOK("CreateUser") =>
          /\ Returned.Cursor = Returned.UserID
          /\ Returned.UserID = Hex(nextID - 1)
          /\ (nextID - 1) \in DOMAIN users
    /\ HandlerOK("UpdateUser") => Returned.Cursor = request.UserID

\* C18 witness: UpdateUser of a stored user called with the upper-case
\* encoding of its ID returns that upper-case string as the cursor
C18_Witness ==
    /\ HandlerOK("UpdateUser")
    /\ request.UserID = UpperHex(MinID + 1)
    /\ Returned.Cursor = UpperHex(MinID + 1)
    /\ Returned.Cursor # Hex(MinID + 1)

\* no user is stored under the identifier the string encodes, or the string
\* encodes no identifier
NotStoredIn(coll, userID) ==
    ValidEncoding(userID) => \A id \in DOMAIN coll : ~SameID(Hex(id), userID)

\* the step is a complete call of ReadUser, UpdateUser or DeleteUser in
\* which no store operation failed
SingleUserCall ==
    /\ pc = "idle" /\ pc' = "done"
    /\ op' \in {"ReadUser", "UpdateUser", "DeleteUser"}
    /\ fault' = "none"

\* C19: ReadUser, UpdateUser and DeleteUser called, without a store failure,
\* with a UserID under which no user is stored return no response and a
\* UserNotFoundError carrying exactly the UserID of the request, and leave
\* the stored users unchanged; after a successful DeleteUser(u) no user is
\* stored under u, and a UserID that was handed out and is no longer stored
\* is never stored again, so that ReadUser(u) and a second DeleteUser(u)
\* return UserNotFoundError.
C19_NotFound ==
    [][/\ (SingleUserCall /\ NotStoredIn(users, request'.UserID)) =>
             /\ ~IsSet(result'.response)
             /\ IsSet(result'.err)
             /\ ValueOf(result'.err).kind = "UserNotFoundError"
             /\ ValueOf(result'.err).value = request'.UserID
             /\ users' = users
       /\ (SingleUserCall /\ op' = "DeleteUser" /\ IsSet(result'.response)) =>
             /\ ~NotStoredIn(users, request'.UserID)
             /\ NotStoredIn(users', request'.UserID)
       /\ \A id \in MinID..(nextID - 1) :
             NotStoredIn(users, Hex(id)) => NotStoredIn(users', Hex(id))]_vars

\* C19 witness: the first user was created and deleted, and ReadUser with
\* the upper-case encoding of its ID returns UserNotFoundError with that
\* string
C19_Witness ==
    /\ HandlerFailed("ReadUser")
    /\ fault = "none"
    /\ nextID > MinID + 1
    /\ (MinID + 1) \notin DOMAIN users
    /\ request.UserID = UpperHex(MinID + 1)
    /\ ReturnedErr.kind = "UserNotFoundError"
    /\ ReturnedErr.value = UpperHex(MinID + 1)

\* the ObjectIDs of the users the callers were told are stored under the
\* identifier the string encodes
WrittenUnder(userID) ==
    IF ValidEncoding(userID)
    THEN {id \in DOMAIN written : SameID(Hex(id), userID)}
    ELSE {}

\* the history changes at id in this step
WrittenChanges(id) ==
    \/ (id \in DOMAIN written) # (id \in DOMAIN written')
    \/ /\ id \in DOMAIN written /\ id \in DOMAIN written'
       /\ written[id] # written'[id]

\* this step is a successful CreateUser that returned the encoding of id, or
\* a successful UpdateUser or DeleteUser called with an encoding of id
WritesTo(id) ==
    /\ pc' = "done" /\ IsSet(result'.response)
    /\ \/ op' = "CreateUser" /\ ValueOf(result'.response).UserID = Hex(id)
       \/ /\ op' \in {"UpdateUser", "DeleteUser"}
          /\ ValidEncoding(request'.UserID)
          /\ SameID(Hex(id), request'.UserID)

\* C20: the email last written for u (by the CreateUser that returned u or
\* by a later successful UpdateUser of u, until a DeleteUser of u succeeds)
\* changes only in a successful CreateUser, UpdateUser or DeleteUser of u:
\* a created user has the email of its CreateUser request and an updated
\* user the email of its UpdateUser request; every ReadUser(u) that returns
\* a response returns that email, and ReadUser(u) returns a response
\* whenever one is written for u and no store operation fails.
C20_ReadYourWrites ==
    /\ [](/\ HandlerOK("ReadUser") =>
                /\ WrittenUnder(request.UserID) # {}
                /\ \A id \in WrittenUnder(request.UserID) :
                       Returned.User.Email = written[id]
          /\ (pc = "done" /\ op = "ReadUser" /\ fault = "none"
                /\ WrittenUnder(request.UserID) # {}) => HandlerOK("ReadUser"))
    /\ [][\A id \in ObjectIDs :
             /\ WrittenChanges(id) => WritesTo(id)
             /\ (WritesTo(id) /\ op' = "CreateUser") =>
                    /\ id \in DOMAIN written'
                    /\ written'[id] = ValueOf(result'.response).User.Email
             /\ (WritesTo(id) /\ op' = "UpdateUser") =>
                    (id \in DOMAIN written' /\ written'[id] = request'.User.Email)
             /\ (WritesTo(id) /\ op' = "DeleteUser") => id \notin DOMAIN written']_vars

\* C20 witness: three users are stored and ReadUser of the second returns
\* its email, the last written for it, which is not the email of the others
C20_Witness ==
    /\ HandlerOK("ReadUser")
    /\ request.UserID = Hex(MinID + 1)
    /\ DOMAIN users = {MinID, MinID + 1, MinID + 2}
    /\ users[MinID] = EmailOrder[2]
    /\ users[MinID + 2] = EmailOrder[2]
    /\ Returned.User.Email = EmailOrder[1]

\* the business service was called and has returned to the endpoint
BusinessReturned == rpc.pc \in {"encode", "done", "panic"} /\ rpc.businessCalls = 1

\* the UserID of the request in flight, empty when the request has none
RequestUserID ==
    IF rpc.name \in {"ReadUser", "UpdateUser", "DeleteUser"}
    THEN ValueOf(rpc.request).UserID ELSE EmptyString

\* the repository call of the operation in flight failed
RepositoryFailed == BusinessReturned /\ IsSet(rpc.returned.err)

\* the error of the repository and the Err of the response
RepositoryErr == ValueOf(rpc.returned.err)
ResponseErr == ValueOf(ValueOf(rpc.response).Err)

\* C21: every operation of the business service returns a nil
\* Go error; when the repository call fails, response.Err is a
\* UserAlreadyExistsError for a repository UserAlreadyExistsError, a
\* UserNotFoundError carrying the UserID of the request for a repository
\* UserNotFoundError and an UnknownError for any other error, and unwraps to
\* the repository's error.
C21_ErrorMappingThreeKinds ==
    (BusinessReturned /\ rpc.name \in UserOperations) =>
        /\ rpc.goErr = Nil
        /\ RepositoryFailed =>
              /\ IsSet(ValueOf(rpc.response).Err)
              /\ ResponseErr.Err = RepositoryErr
              /\ ResponseErr.kind =
                    IF RepositoryErr.kind = "UserAlreadyExistsError"
                    THEN "business.UserAlreadyExistsError"
                    ELSE IF RepositoryErr.kind = "UserNotFoundError"
                    THEN "business.UserNotFoundError"
                    ELSE "business.UnknownError"
              /\ RepositoryErr.kind = "UserNotFoundError" =>
                    ResponseErr.UserID = RequestUserID

\* C21 witness: the repository ReadUser returned UserNotFoundError and the
\* response carries a business UserNotFoundError with the non-empty UserID
\* of the request, wrapping the repository's error
C21_Witness ==
    /\ RepositoryFailed
    /\ rpc.name = "ReadUser"
    /\ RepositoryErr.kind = "UserNotFoundError"
    /\ ResponseErr.kind = "business.UserNotFoundError"
    /\ ResponseErr.UserID = Hex(MinID)
    /\ ResponseErr.Err = RepositoryErr

\* an endpoint was called and has answered or called the business service
EndpointCalled == rpc.pc \in {"business", "encode", "done", "panic"}

\* the Err of the response the endpoint's guards returned is the error err
\* and the business service was not called
GuardAnswered(err) ==
    /\ rpc.businessCalls = 0
    /\ rpc.goErr = Nil
    /\ IsSet(rpc.response)
    /\ ValueOf(rpc.response).Err = Some(err)

\* C22: an endpoint (Create, Read, Update, Delete, Search) called with a nil
\* context answers ArgumentNilError("ctx"), also when the request is nil
\* too; called with a context and a nil request it answers
\* ArgumentNilError("request"); called with a context and a request that
\* fails Validate it answers ArgumentError("request") wrapping the
\* validation error; in the three cases the Go error is nil and the
\* business service is not called, and in every other case it is called.
C22_EndpointGuards ==
    (EndpointCalled /\ rpc.name \in UserOperations) =>
        LET invalid == IF IsSet(rpc.request)
                       THEN Validate(rpc.name, ValueOf(rpc.request)) ELSE Nil
        IN  /\ rpc.goErr = Nil
            /\ ~IsSet(rpc.ctx) =>
                  /\ GuardAnswered(ArgumentNilError("ctx"))
                  /\ ResponseErr.kind = "ArgumentNilError"
                  /\ ResponseErr.ArgumentName = "ctx"
            /\ (IsSet(rpc.ctx) /\ ~IsSet(rpc.request)) =>
                  /\ GuardAnswered(ArgumentNilError("request"))
                  /\ ResponseErr.kind = "ArgumentNilError"
                  /\ ResponseErr.ArgumentName = "request"
            /\ (IsSet(rpc.ctx) /\ IsSet(rpc.request) /\ IsSet(invalid)) =>
                  /\ GuardAnswered(ArgumentError("request", ValueOf(invalid)))
                  /\ ResponseErr.kind = "ArgumentError"
                  /\ ResponseErr.ArgumentName = "request"
                  /\ ResponseErr.Err = invalid
            /\ (IsSet(rpc.ctx) /\ IsSet(rpc.request) /\ ~IsSet(invalid)) =>
                  rpc.businessCalls = 1

\* C22 witness: Search called with a nil context and a nil request answers
\* ArgumentNilError("ctx") without calling the business service
C22_Witness ==
    /\ EndpointCalled
    /\ rpc.name = "Search"
    /\ ~IsSet(rpc.ctx) /\ ~IsSet(rpc.request)
    /\ rpc.businessCalls = 0
    /\ ResponseErr.kind = "ArgumentNilError"
    /\ ResponseErr.ArgumentName = "ctx"

\* C29: mapError is total over the errors that reach a response's Err: no
\* response an endpoint returns makes the encoder reach the
\* "Error type undefined." panic.
C29_MapErrorTotal ==
    (EndpointCalled /\ IsSet(rpc.response) /\ IsSet(ValueOf(rpc.response).Err)) =>
        /\ mapError(ResponseErr) \in
               {"UNKNOWN", "USER_ALREADY_EXISTS", "USER_NOT_FOUND", "BAD_REQUEST"}
        /\ rpc.pc # "panic"

\* the exit paths of Search after createClientAndCollection returned a client
SearchExitPaths ==
    {"zero count", "count failure", "cursor decode failure", "fetch failure",
     "document decode failure", "success"}

\* the exit path a finished Search took, "before acquisition" when it
\* returned without a client
SearchExitPath ==
    IF calls.connect = 0 \/ fault = "connect" THEN "before acquisition"
    ELSE IF fault = "count" THEN "count failure"
    ELSE IF fault = "find" THEN "fetch failure"
    ELSE IF fault \in {"decode", "load"} THEN "document decode failure"
    ELSE IF SearchFailed THEN "cursor decode failure"
    ELSE IF calls.find = 0 THEN "zero count"
    ELSE "success"

\* C24: a Search call acquires at most one store client; while the call
\* holds it the client is not disconnected, and on every exit path after the
\* acquisition the client has been disconnected, once, when Search returns;
\* a call that acquired no client disconnects none.
C24_OneClientAlwaysDisconnected ==
    /\ op = "Search" => calls.connect <= 1
    /\ (op = "Search" /\ pc \in {"count", "find", "next"}) =>
           (calls.connect = 1 /\ calls.disconnect = 0)
    /\ SearchDone =>
           IF SearchExitPath \in SearchExitPaths
           THEN calls.connect = 1 /\ calls.disconnect = 1
           ELSE calls.disconnect = 0

\* C24 witness: a Search whose fetched document fails to decode returns with
\* its one client disconnected
C24_Witness ==
    /\ SearchDone
    /\ SearchExitPath = "document decode failure"
    /\ calls.connect = 1 /\ calls.find = 1
    /\ calls.disconnect = 1

\* the pagination fields and the TotalCount of a successful Search
FlagInputs(req, resp) == <<req.Pagination, resp.TotalCount>>

\* the two page flags of a response
Flags(resp) == <<resp.HasNextPage, resp.HasPreviousPage>>

\* C25: two successful Searches whose requests have the same After, Before,
\* First and Last and whose responses have the same TotalCount return the
\* same HasNextPage and HasPreviousPage, whatever the stores, the UserIDs,
\* the SortingOptions and the returned users are.
C25_FlagsFromPaginationAndTotal ==
    (SearchOK /\ IsSet(observed)) =>
        LET earlier == ValueOf(observed)
        IN  FlagInputs(earlier.request, earlier.response) = FlagInputs(request, Returned)
                => Flags(earlier.response) = Flags(Returned)

\* C25 witness: two successful Searches with the same pagination and
\* TotalCount and a true flag, made against different stores with different
\* UserIDs and SortingOptions and returning different users
C25_Witness ==
    /\ SearchOK
    /\ IsSet(observed)
    /\ LET earlier == ValueOf(observed)
       IN  /\ FlagInputs(earlier.request, earlier.response) = FlagInputs(request, Returned)
           /\ earlier.store # users
           /\ earlier.request.UserIDs # request.UserIDs
           /\ earlier.request.SortingOptions # request.SortingOptions
           /\ earlier.response.Users # Returned.Users
           /\ Returned.HasNextPage

\* C26 as stated: in every successful Search response the number of users
\* is at most TotalCount, also when CreateUser and DeleteUser calls of
\* other clients take effect between the count and the fetch.
C26_EntriesAtMostTotalCount ==
    SearchOK => Len(Returned.Users) <= Returned.TotalCount

\* C26 as amended: in every successful Search response the number of users
\* is at most TotalCount when no CreateUser call of another client took
\* effect between the count and the fetch, also when DeleteUser calls of
\* other clients did.
C26_EntriesAtMostTotalCountUnlessCreated ==
    (SearchOK /\ "CreateUser" \notin between) =>
        Len(Returned.Users) <= Returned.TotalCount

\* C26 witness: a Search without limit during which another client deleted a
\* user between the count and the fetch returns fewer users than TotalCount
C26_Witness ==
    /\ SearchOK
    /\ fault = "none"
    /\ calls.find = 1
    /\ between = {"DeleteUser"}
    /\ ~IsSet(Pagination.First)
    /\ Len(Returned.Users) >= 1
    /\ Len(Returned.Users) < Returned.TotalCount

\* the cursors the caller that pages forward has got so far
PagedCursors == Concat(paging.pages)

\* the stored users the caller pages through
PagedUsers ==
    IF paging.UserIDs = <<>> THEN DOMAIN users
    ELSE {id \in DOMAIN users :
             \E i \in 1..Len(paging.UserIDs) : SameID(Hex(id), paging.UserIDs[i])}

\* C27: with empty SortingOptions, an unchanged store and fixed UserIDs, the
\* pages of Search calls with First = n >= 1, each with After = the Cursor
\* of the last entry of the page before it, are pairwise disjoint and in
\* ascending ID order, skip no user of the filtered set below the last
\* cursor, are full (n entries) until the last one, and end with a page
\* shorter than n or empty, when together they are the whole filtered set.
C27_ForwardPagingComplete ==
    paging.state \in {"paging", "ended"} =>
        LET got == PagedCursors
            pages == paging.pages
        IN  /\ \A i \in 1..Len(got) : \A j \in 1..Len(got) :
                   i < j => LessID(got[i], got[j])
            /\ \A i \in 1..Len(got) : \E id \in PagedUsers : SameID(got[i], Hex(id))
            /\ \A id \in PagedUsers :
                   (got # <<>> /\ ~LessID(got[Len(got)], Hex(id)))
                       => \E i \in 1..Len(got) : SameID(got[i], Hex(id))
            /\ \A k \in 1..Len(pages) :
                   IF k < Len(pages) \/ paging.state = "paging"
                   THEN Len(pages[k]) = paging.First
                   ELSE Len(pages[k]) < paging.First
            /\ paging.state = "ended" =>
                   /\ pages # <<>>
                   /\ \A id \in PagedUsers : \E i \in 1..Len(got) : SameID(got[i], Hex(id))

\* the entry a Search returns for the stored user id
EntryOf(id) == [UserID |-> Hex(id), User |-> [Email |-> users[id]], Cursor |-> Hex(id)]

\* the stored users that follow the user with cursor c under a sorting option
FollowingInSortOrder(option, c) ==
    {id \in DOMAIN users :
        \E at \in DOMAIN users :
            /\ SameID(Hex(at), c)
            /\ StrictlyBefore(option, EntryOf(at), EntryOf(id))}

\* C28: when the stored users have pairwise different emails, a successful
\* Search sorted on email with After = c, c being the cursor of a stored
\* user, returns exactly the users that follow that user in the requested
\* order, in that order, cut at First.
C28_EntriesFollowCursorInSortOrder ==
    (/\ SearchOK /\ fault = "none"
     /\ request.UserIDs = <<>>
     /\ Len(request.SortingOptions) = 1
     /\ request.SortingOptions[1].Name = "email"
     /\ DistinctOn("email")
     /\ PaginationShape(TRUE, FALSE, TRUE, FALSE) \/ PaginationShape(TRUE, FALSE, FALSE, FALSE)
     /\ \E at \in DOMAIN users : SameID(Hex(at), ValueOf(Pagination.After)))
    => LET entries == Returned.Users
           option == request.SortingOptions[1]
           following == FollowingInSortOrder(option, ValueOf(Pagination.After))
           size == IF IsSet(Pagination.First)
                   THEN Smaller(ValueOf(Pagination.First), Cardinality(following))
                   ELSE Cardinality(following)
       IN  /\ Len(entries) = size
           /\ \A i \in 1..Len(entries) :
                  \E id \in following : entries[i] = EntryOf(id)
           /\ \A i \in 1..Len(entries) : \A j \in (i + 1)..Len(entries) :
                  StrictlyBefore(option, entries[i], entries[j])
           /\ \A id \in following :
                  \/ \E i \in 1..Len(entries) : entries[i] = EntryOf(id)
                  \/ \A i \in 1..Len(entries) :
                         StrictlyBefore(option, entries[i], EntryOf(id))

\* C30: Live and Ready are both false until Start has bound its listener and
\* sets them, both true while Serve runs, both false once Start has reset
\* them after Serve returned, false when Start failed before it served, and
\* false once Stop has returned.
C30_LiveReadyFollowServe ==
    /\ transport.pc \in {"new", "listening"} => (~transport.Live /\ ~transport.Ready)
    /\ transport.pc = "serving" => (transport.Live /\ transport.Ready)
    /\ transport.pc = "returned" => (~transport.Live /\ ~transport.Ready)
    /\ (transport.pc = "returned" /\ transport.err \in {Some(f) : f \in StartFailures})
           => (~transport.Live /\ ~transport.Ready)
    /\ transport.stopped => (~transport.Live /\ ~transport.Ready)

\* a Search call is between its first and its last line
InFlight(c) == searches.pc[c] \in {"connect", "count", "find", "next", "flags"}

\* C23: against a store that no one modifies, what a Search call returns when
\* its steps (decode, connect, count, find, each document of the cursor, flag
\* computation) are interleaved with those of other Search calls with other
\* requests is what it returns when it runs alone and the store fails it in
\* the same way.
C23_InterleavedAsAlone ==
    \A c \in Calls :
        searches.pc[c] = "done" =>
            searches.result[c] =
                SearchAlone(users, searches.request[c], searches.failure[c])

\* C23 witness: a Search call with a filter has returned two users while
\* another call with a cursor is in the loop over its own cursor and has
\* taken a document from it
C23_Witness ==
    \E c \in Calls : \E d \in Calls :
        /\ c # d
        /\ searches.pc[c] = "done"
        /\ searches.pc[d] = "next"
        /\ searches.request[c].UserIDs # <<>>
        /\ IsSet(searches.request[d].Pagination.After)
        /\ searches.failure[c] = NoFailure
        /\ IsSet(searches.result[c].response)
        /\ Len(ValueOf(searches.result[c].response).Users) = 2
        /\ Len(searches.locals[d].users) = 1

====
